---- MODULE Spec2Model ----
(***************************************************************************)
(* A model of github.com/jybp/ebay: client construction, request building  *)
(* (Client.NewRequest and the functional options), dispatch (Client.Do),   *)
(* error decoding (CheckResponse, ErrorData) and the error-code predicate  *)
(* (IsError).                                                              *)
(*                                                                         *)
(* Strings are sequences of one-character strings, so that prefix tests,   *)
(* URL parsing, reference resolution and escaping are computed character   *)
(* by character as net/url does.  A decoded byte that is not a character   *)
(* of the modelled alphabet is one token, "%XY"; a header name and the     *)
(* fixed text of a request dump are one token each.                        *)
(***************************************************************************)
EXTENDS Integers, Sequences, FiniteSets, TLC

(***************************************************************************)
(* Bounds of the model.                                                    *)
(***************************************************************************)
\* Longest relative path handed to NewRequest.
MaxPathLen == 3
\* Longest option list handed to NewRequest.
MaxOpts == 2
\* Longest "errors" array of a response body.
MaxErrors == 2
\* Longest list of candidate codes handed to IsError.
MaxCodes == 2
\* Most invocations of BearerTokenSource.Token in one behaviour.
MaxTokenCalls == 3

\* The number of Do calls one caller makes with one request.
MaxDoCalls == 2

(***************************************************************************)
(* strings: HasPrefix, HasSuffix, Index, Cut, Count, Split, Join           *)
(***************************************************************************)
HasPrefix(s, p) == Len(s) >= Len(p) /\ SubSeq(s, 1, Len(p)) = p

HasSuffix(s, p) == Len(s) >= Len(p) /\ SubSeq(s, Len(s) - Len(p) + 1, Len(s)) = p

\* strings.IndexByte, 1-based; 0 when c does not occur.
Index(s, c) ==
  IF \E i \in 1..Len(s) : s[i] = c
  THEN CHOOSE i \in 1..Len(s) : s[i] = c /\ \A j \in 1..(i - 1) : s[j] # c
  ELSE 0

\* strings.LastIndexByte, 1-based; 0 when c does not occur.
LastIndex(s, c) ==
  IF \E i \in 1..Len(s) : s[i] = c
  THEN CHOOSE i \in 1..Len(s) : s[i] = c /\ \A j \in (i + 1)..Len(s) : s[j] # c
  ELSE 0

Contains(s, c) == Index(s, c) # 0

Count(s, c) == Cardinality({i \in 1..Len(s) : s[i] = c})

\* strings.Cut(s, c): the text before and after the first c.
CutBefore(s, c) == IF Index(s, c) = 0 THEN s ELSE SubSeq(s, 1, Index(s, c) - 1)

CutAfter(s, c) == IF Index(s, c) = 0 THEN <<>> ELSE SubSeq(s, Index(s, c) + 1, Len(s))

RECURSIVE Split(_, _)
Split(s, c) ==
  IF Index(s, c) = 0 THEN <<s>>
  ELSE <<CutBefore(s, c)>> \o Split(CutAfter(s, c), c)

RECURSIVE Join(_, _)
Join(elems, c) ==
  IF Len(elems) = 0 THEN <<>>
  ELSE IF Len(elems) = 1 THEN elems[1]
  ELSE elems[1] \o <<c>> \o Join(Tail(elems), c)

\* strings.TrimPrefix for a one-character prefix.
TrimPrefix(s, c) == IF Len(s) > 0 /\ s[1] = c THEN Tail(s) ELSE s


(***************************************************************************)
(* Characters.                                                             *)
(***************************************************************************)
LowerLetters ==
  {"a", "b", "c", "d", "e", "f", "g", "h", "i", "j", "k", "l", "m",
   "n", "o", "p", "q", "r", "s", "t", "u", "v", "w", "x", "y", "z"}

UpperLetters ==
  {"A", "B", "C", "D", "E", "F", "G", "H", "I", "J", "K", "L", "M",
   "N", "O", "P", "Q", "R", "S", "T", "U", "V", "W", "X", "Y", "Z"}

Digits == {"0", "1", "2", "3", "4", "5", "6", "7", "8", "9"}

IsLetter(c) == c \in LowerLetters \cup UpperLetters

IsDigit(c) == c \in Digits

UpperHex == Digits \cup {"A", "B", "C", "D", "E", "F"}

ishex(c) == c \in UpperHex \cup {"a", "b", "c", "d", "e", "f"}

\* The upper-case form of a hexadecimal digit.
HexUpper(c) ==
  CASE c = "a" -> "A" [] c = "b" -> "B" [] c = "c" -> "C"
    [] c = "d" -> "D" [] c = "e" -> "E" [] c = "f" -> "F"
    [] OTHER -> c

\* The code, as two upper-case hexadecimal digits, of each modelled ASCII
\* character that escaping can produce or consume.
AsciiHex ==
  [c \in {" ", "#", "%", "&", "+", ",", "/", ":", "=", "?", "|"} |->
     CASE c = " " -> <<"2", "0">> [] c = "#" -> <<"2", "3">>
       [] c = "%" -> <<"2", "5">> [] c = "&" -> <<"2", "6">>
       [] c = "+" -> <<"2", "B">> [] c = "," -> <<"2", "C">>
       [] c = "/" -> <<"2", "F">> [] c = ":" -> <<"3", "A">>
       [] c = "=" -> <<"3", "D">> [] c = "?" -> <<"3", "F">>
       [] c = "|" -> <<"7", "C">>]

\* The byte with the upper-case hexadecimal code given: a modelled ASCII
\* character, or else the token "%HL" (one byte outside the modelled alphabet).
byteOfCode(code) ==
  IF \E c \in DOMAIN AsciiHex : AsciiHex[c] = code
  THEN CHOOSE c \in DOMAIN AsciiHex : AsciiHex[c] = code
  ELSE "%" \o code[1] \o code[2]

\* url.unhex of both digits of %hl.
unhexByte(h, l) == byteOfCode(<<HexUpper(h), HexUpper(l)>>)

\* "%XX" for the byte c (url.escape writes upper-case hexadecimal digits).
hexOfByte(c) ==
  IF c \in DOMAIN AsciiHex THEN <<"%">> \o AsciiHex[c]
  ELSE <<"%">> \o (CHOOSE hl \in UpperHex \X UpperHex : "%" \o hl[1] \o hl[2] = c)

\* A byte below 0x80: every character that is not a "%XY" token.
IsASCII(c) == \A hl \in UpperHex \X UpperHex : "%" \o hl[1] \o hl[2] # c

(***************************************************************************)
(* net/url: shouldEscape, unescape, escape, validEncoding.  The encoding   *)
(* modes are "path", "host", "fragment" and "queryComponent".              *)
(***************************************************************************)
shouldEscape(c, mode) ==
  IF IsLetter(c) \/ IsDigit(c) THEN FALSE
  ELSE IF mode = "host" /\ c \in {"!", "$", "&", "'", "(", ")", "*", "+", ",",
                                   ";", "=", ":", "[", "]", "<", ">", "\""}
  THEN FALSE
  ELSE IF c \in {"-", "_", ".", "~"} THEN FALSE
  ELSE IF c \in {"$", "&", "+", ",", "/", ":", ";", "=", "?", "@"}
          /\ mode \in {"path", "queryComponent", "fragment"}
  THEN CASE mode = "path" -> c = "?"
         [] mode = "queryComponent" -> TRUE
         [] mode = "fragment" -> FALSE
  ELSE IF mode = "fragment" /\ c \in {"!", "(", ")", "*"} THEN FALSE
  ELSE TRUE

\* The first pass of url.unescape: every % is followed by two hexadecimal
\* digits, and a host holds no character that had to be escaped.
RECURSIVE unescapeOK(_, _)
unescapeOK(s, mode) ==
  IF Len(s) = 0 THEN TRUE
  ELSE IF s[1] = "%"
  THEN /\ Len(s) >= 3
       /\ ishex(s[2])
       /\ ishex(s[3])
       /\ ~(mode = "host" /\ s[2] \in {"0", "1", "2", "3", "4", "5", "6", "7"}
            /\ SubSeq(s, 1, 3) # <<"%", "2", "5">>)
       /\ unescapeOK(SubSeq(s, 4, Len(s)), mode)
  ELSE /\ ~(mode = "host" /\ IsASCII(s[1]) /\ shouldEscape(s[1], "host"))
       /\ unescapeOK(Tail(s), mode)

\* The second pass: %XY becomes its byte, + a space in a query component.
RECURSIVE unescapeText(_, _)
unescapeText(s, mode) ==
  IF Len(s) = 0 THEN <<>>
  ELSE IF s[1] = "%"
  THEN <<unhexByte(s[2], s[3])>> \o unescapeText(SubSeq(s, 4, Len(s)), mode)
  ELSE IF s[1] = "+" /\ mode = "queryComponent"
  THEN <<" ">> \o unescapeText(Tail(s), mode)
  ELSE <<s[1]>> \o unescapeText(Tail(s), mode)

\* url.unescape: [ok, val].
unescape(s, mode) ==
  IF unescapeOK(s, mode) THEN [ok |-> TRUE, val |-> unescapeText(s, mode)]
  ELSE [ok |-> FALSE, val |-> <<>>]

RECURSIVE escape(_, _)
escape(s, mode) ==
  IF Len(s) = 0 THEN <<>>
  ELSE IF shouldEscape(s[1], mode)
  THEN (IF s[1] = " " /\ mode = "queryComponent" THEN <<"+">> ELSE hexOfByte(s[1]))
       \o escape(Tail(s), mode)
  ELSE <<s[1]>> \o escape(Tail(s), mode)

\* url.validEncoding: s holds no character that escape would have escaped,
\* besides the punctuation RFC 3986 allows and %.
validEncoding(s, mode) ==
  \A i \in 1..Len(s) :
    \/ s[i] \in {"!", "$", "&", "'", "(", ")", "*", "+", ",", ";", "=", ":", "@"}
    \/ s[i] \in {"[", "]"}
    \/ s[i] = "%"
    \/ ~shouldEscape(s[i], mode)

\* url.QueryEscape
QueryEscape(s) == escape(s, "queryComponent")


(***************************************************************************)
(* net/url: URL, Parse, String, ResolveReference.  Userinfo and bracketed  *)
(* IPv6 hosts need "@" and "[", which no modelled input holds.  A step     *)
(* that uses an intermediate value several times is an operator of its     *)
(* own that takes the value as a parameter.                                *)
(***************************************************************************)
EmptyURL ==
  [Scheme |-> <<>>, Opaque |-> <<>>, Host |-> <<>>, Path |-> <<>>,
   RawPath |-> <<>>, OmitHost |-> FALSE, ForceQuery |-> FALSE,
   RawQuery |-> <<>>, Fragment |-> <<>>, RawFragment |-> <<>>]

\* A failed parse: [ok, u].
ParseFailed == [ok |-> FALSE, u |-> EmptyURL]

\* A control byte: url.parse refuses a URL that holds one.
IsCTL(c) == c \in {"\n", "\t", "\r"}

\* url.getScheme: [ok, scheme, rest].  i is the number of characters read.
RECURSIVE getSchemeFrom(_, _)
getSchemeFrom(rawURL, i) ==
  IF i > Len(rawURL) THEN [ok |-> TRUE, scheme |-> <<>>, rest |-> rawURL]
  ELSE IF IsLetter(rawURL[i]) THEN getSchemeFrom(rawURL, i + 1)
  ELSE IF IsDigit(rawURL[i]) \/ rawURL[i] \in {"+", "-", "."}
  THEN (IF i = 1 THEN [ok |-> TRUE, scheme |-> <<>>, rest |-> rawURL]
        ELSE getSchemeFrom(rawURL, i + 1))
  ELSE IF rawURL[i] = ":"
  THEN (IF i = 1 THEN [ok |-> FALSE, scheme |-> <<>>, rest |-> <<>>]
        ELSE [ok |-> TRUE, scheme |-> SubSeq(rawURL, 1, i - 1),
              rest |-> SubSeq(rawURL, i + 1, Len(rawURL))])
  ELSE [ok |-> TRUE, scheme |-> <<>>, rest |-> rawURL]

getScheme(rawURL) == getSchemeFrom(rawURL, 1)

\* strings.ToLower, on the letters a scheme of the model can hold.
ToLowerChar(c) ==
  CASE c = "A" -> "a" [] c = "B" -> "b" [] c = "C" -> "c" [] c = "D" -> "d"
    [] c = "E" -> "e" [] c = "F" -> "f" [] c = "G" -> "g" [] c = "H" -> "h"
    [] c = "P" -> "p" [] c = "S" -> "s" [] c = "T" -> "t" [] OTHER -> c

RECURSIVE ToLower(_)
ToLower(s) == IF Len(s) = 0 THEN <<>> ELSE <<ToLowerChar(s[1])>> \o ToLower(Tail(s))

\* url.validOptionalPort: "" or ":" followed by digits.
validOptionalPort(port) ==
  \/ port = <<>>
  \/ /\ port[1] = ":"
     /\ \A i \in 2..Len(port) : IsDigit(port[i])

\* url.parseHost: [ok, val].
parseHost(host) ==
  IF LastIndex(host, ":") # 0
     /\ ~validOptionalPort(SubSeq(host, LastIndex(host, ":"), Len(host)))
  THEN [ok |-> FALSE, val |-> <<>>]
  ELSE unescape(host, "host")

\* URL.setPath, given the unescaped text: Path is the unescaped text, RawPath
\* the text itself when it is not the default escaping of Path.  [ok, u].
setPathTo(u, p, path) ==
  IF ~path.ok THEN [ok |-> FALSE, u |-> u]
  ELSE [ok |-> TRUE,
        u |-> [u EXCEPT !.Path = path.val,
                        !.RawPath = IF escape(path.val, "path") = p THEN <<>> ELSE p]]

\* URL.setPath
setPath(u, p) == setPathTo(u, p, unescape(p, "path"))

\* URL.setFragment, given the unescaped text.
setFragmentTo(u, f, frag) ==
  IF ~frag.ok THEN [ok |-> FALSE, u |-> u]
  ELSE [ok |-> TRUE,
        u |-> [u EXCEPT !.Fragment = frag.val,
                        !.RawFragment = IF escape(frag.val, "fragment") = f
                                        THEN <<>> ELSE f]]

\* URL.setFragment
setFragment(u, f) == setFragmentTo(u, f, unescape(f, "fragment"))

\* The raw text when it is a valid encoding of the decoded text, else the
\* default escaping of the decoded text (URL.EscapedPath, URL.EscapedFragment).
escapedOf(raw, text, mode, decoded) ==
  IF raw # <<>> /\ validEncoding(raw, mode) /\ decoded.ok /\ decoded.val = text
  THEN raw
  ELSE IF mode = "path" /\ text = <<"*">> THEN <<"*">>
  ELSE escape(text, mode)

\* URL.EscapedPath
EscapedPath(u) == escapedOf(u.RawPath, u.Path, "path", unescape(u.RawPath, "path"))

\* URL.EscapedFragment
EscapedFragment(u) ==
  escapedOf(u.RawFragment, u.Fragment, "fragment", unescape(u.RawFragment, "fragment"))

\* url.parse, once the host is parsed: the rest is the path.
parseWithHost(u0, host, rest) ==
  IF ~host.ok THEN ParseFailed ELSE setPath([u0 EXCEPT !.Host = host.val], rest)

\* url.parse, the authority: auth0 is the text after "//".
parseAuthority(u0, auth0) ==
  parseWithHost(u0, parseHost(CutBefore(auth0, "/")),
                IF Index(auth0, "/") = 0 THEN <<>>
                ELSE SubSeq(auth0, Index(auth0, "/"), Len(auth0)))

\* url.parse, after the scheme and the query are split off.
parseHier(u0, rest) ==
  IF ~HasPrefix(rest, <<"/">>) /\ u0.Scheme # <<>>
  THEN \* a rootless path is opaque
       [ok |-> TRUE, u |-> [u0 EXCEPT !.Opaque = rest]]
  ELSE IF ~HasPrefix(rest, <<"/">>) /\ Contains(CutBefore(rest, "/"), ":")
  THEN \* first path segment in URL cannot contain colon
       ParseFailed
  ELSE IF (u0.Scheme # <<>> \/ ~HasPrefix(rest, <<"/", "/", "/">>))
          /\ HasPrefix(rest, <<"/", "/">>)
  THEN parseAuthority(u0, SubSeq(rest, 3, Len(rest)))
  ELSE setPath([u0 EXCEPT !.OmitHost = u0.Scheme # <<>> /\ HasPrefix(rest, <<"/">>)],
               rest)

\* url.parse, after the scheme is split off: a lone trailing ? forces an empty
\* query, else the query is the text after the first ?.
parseQueryPart(scheme, rest, force) ==
  parseHier([EmptyURL EXCEPT !.Scheme = scheme, !.ForceQuery = force,
                             !.RawQuery = IF force THEN <<>> ELSE CutAfter(rest, "?")],
            IF force THEN SubSeq(rest, 1, Len(rest) - 1) ELSE CutBefore(rest, "?"))

\* url.parse, given what getScheme returned.
parseScheme(sch) ==
  IF ~sch.ok THEN ParseFailed
  ELSE parseQueryPart(ToLower(sch.scheme), sch.rest,
                      HasSuffix(sch.rest, <<"?">>) /\ Count(sch.rest, "?") = 1)

\* url.parse(rawURL, viaRequest = false), the part after the fragment is cut
\* off: [ok, u].
parse(rawURL) ==
  IF \E i \in 1..Len(rawURL) : IsCTL(rawURL[i]) THEN ParseFailed
  ELSE IF rawURL = <<"*">> THEN [ok |-> TRUE, u |-> [EmptyURL EXCEPT !.Path = <<"*">>]]
  ELSE parseScheme(getScheme(rawURL))

\* url.Parse, given the parse of the text before #.
parseFragment(p, frag) ==
  IF ~p.ok THEN p
  ELSE IF frag = <<>> THEN p
  ELSE setFragment(p.u, frag)

\* url.Parse: [ok, u].
Parse(rawURL) == parseFragment(parse(CutBefore(rawURL, "#")), CutAfter(rawURL, "#"))

\* URL.String, the scheme and the authority: what is written before the path.
stringAuthority(u) ==
  (IF u.Scheme # <<>> THEN u.Scheme \o <<":">> ELSE <<>>)
  \o (IF (u.Scheme # <<>> \/ u.Host # <<>>) /\ ~(u.OmitHost /\ u.Host = <<>>)
      THEN (IF u.Host # <<>> \/ u.Path # <<>> THEN <<"/", "/">> ELSE <<>>)
           \o escape(u.Host, "host")
      ELSE <<>>)

\* URL.String, the path after what is written before it: a slash separates a
\* host from a relative path, and "./" guards a first segment with a colon.
stringPath(u, buf, path) ==
  IF path # <<>> /\ path[1] # "/" /\ u.Host # <<>> THEN buf \o <<"/">> \o path
  ELSE IF buf = <<>> /\ Contains(CutBefore(path, "/"), ":")
  THEN <<".", "/">> \o path
  ELSE buf \o path

\* URL.String
String(u) ==
  (IF u.Opaque # <<>>
   THEN (IF u.Scheme # <<>> THEN u.Scheme \o <<":">> ELSE <<>>) \o u.Opaque
   ELSE stringPath(u, stringAuthority(u), EscapedPath(u)))
  \o (IF u.ForceQuery \/ u.RawQuery # <<>> THEN <<"?">> \o u.RawQuery ELSE <<>>)
  \o (IF u.Fragment # <<>> THEN <<"#">> \o EscapedFragment(u) ELSE <<>>)

\* The loop of url.resolvePath over the elements of the full path.
RECURSIVE removeDotSegments(_, _)
removeDotSegments(src, dst) ==
  IF Len(src) = 0 THEN dst
  ELSE IF src[1] = <<".">> THEN removeDotSegments(Tail(src), dst)
  ELSE IF src[1] = <<".", ".">>
  THEN removeDotSegments(Tail(src),
                         IF Len(dst) > 0 THEN SubSeq(dst, 1, Len(dst) - 1) ELSE dst)
  ELSE removeDotSegments(Tail(src), Append(dst, src[1]))

\* url.resolvePath, given the elements of the full path: a final dot segment
\* leaves a final slash.
resolveElems(src) ==
  <<"/">> \o TrimPrefix(Join(IF src[Len(src)] \in {<<".">>, <<".", ".">>}
                             THEN Append(removeDotSegments(src, <<>>), <<>>)
                             ELSE removeDotSegments(src, <<>>),
                             "/"),
                        "/")

\* url.resolvePath, given the full path.
resolveFull(full) == IF full = <<>> THEN <<>> ELSE resolveElems(Split(full, "/"))

\* resolvePath that takes the reference alone, as if the base had no
\* directory: C2 tells it from resolvePath.
resolvePathFromRoot(base, ref) ==
  resolveFull(IF ref = <<>> THEN base ELSE <<"/">> \o ref)

\* url.resolvePath
resolvePath(base, ref) ==
  resolveFull(IF ref = <<>> THEN base
              ELSE IF ref[1] # "/" THEN SubSeq(base, 1, LastIndex(base, "/")) \o ref
              ELSE ref)

\* URL.ResolveReference, a reference with no scheme, host or opaque part: an
\* empty reference inherits the query and the fragment of the base.
resolveRelative(u, ref, url) ==
  IF ref.Path = <<>> /\ u.Opaque # <<>>
  THEN [url EXCEPT !.Opaque = u.Opaque, !.Host = <<>>, !.Path = <<>>]
  ELSE setPath([url EXCEPT !.Host = u.Host],
               resolvePath(EscapedPath(u), EscapedPath(ref))).u

\* URL.ResolveReference, the query and fragment an empty reference inherits.
inheritQuery(u, ref, url) ==
  IF ref.Path = <<>> /\ ~ref.ForceQuery /\ ref.RawQuery = <<>>
  THEN (IF ref.Fragment = <<>>
        THEN [url EXCEPT !.RawQuery = u.RawQuery, !.Fragment = u.Fragment,
                         !.RawFragment = u.RawFragment]
        ELSE [url EXCEPT !.RawQuery = u.RawQuery])
  ELSE url

\* URL.ResolveReference, given the copy of ref that has the scheme.
resolveInto(u, ref, url) ==
  IF ref.Scheme # <<>> \/ ref.Host # <<>>
  THEN setPath(url, resolvePath(EscapedPath(ref), <<>>)).u
  ELSE IF ref.Opaque # <<>>
  THEN [url EXCEPT !.Host = <<>>, !.Path = <<>>]
  ELSE resolveRelative(u, ref, inheritQuery(u, ref, url))

\* URL.ResolveReference
ResolveReference(u, ref) ==
  resolveInto(u, ref, IF ref.Scheme = <<>> THEN [ref EXCEPT !.Scheme = u.Scheme] ELSE ref)

(***************************************************************************)
(* Errors.  An error value is a record with a kind: "nil", "error" (made   *)
(* by errors.New or fmt.Errorf, or returned by the standard library),      *)
(* "withStack" (errors.WithStack of a cause) or "ErrorData".               *)
(***************************************************************************)
NilError == [kind |-> "nil"]

NewError(msg) == [kind |-> "error", msg |-> msg]

\* errors.WithStack: nil for a nil error, else a wrapper of the cause.
WithStack(err) ==
  IF err.kind = "nil" THEN NilError ELSE [kind |-> "withStack", cause |-> err]

(***************************************************************************)
(* Client construction (ebay.go).  A pointer that may be nil is a sequence *)
(* of length at most one: <<>> is nil, <<x>> points to x.                  *)
(***************************************************************************)
baseURL == <<"h", "t", "t", "p", "s", ":", "/", "/", "a", "p", "i", ".", "e", "b", "a", "y", ".", "c", "o", "m", "/">>

sandboxBaseURL == <<"h", "t", "t", "p", "s", ":", "/", "/", "a", "p", "i", ".", "s", "a", "n", "d", "b", "o", "x", ".", "e", "b", "a", "y", ".", "c", "o", "m", "/">>

\* newClient, given what url.Parse returned: the HTTP client defaults to
\* http.DefaultClient; the error of url.Parse is dropped, so baseURL is nil
\* when the text does not parse.
newClientWith(httpclient, url) ==
  [client  |-> IF httpclient = "nil" THEN "DefaultClient" ELSE httpclient,
   baseURL |-> IF url.ok THEN <<url.u>> ELSE <<>>]

\* newClient
newClient(httpclient, base) == newClientWith(httpclient, Parse(base))

\* NewClient: [c, err]
NewClient(httpclient) == [c |-> <<newClient(httpclient, baseURL)>>, err |-> NilError]

\* NewSandboxClient: [c, err]
NewSandboxClient(httpclient) ==
  [c |-> <<newClient(httpclient, sandboxBaseURL)>>, err |-> NilError]

\* NewCustomClient with no test of the trailing slash: C3 tells it from
\* NewCustomClient.
NewCustomClientUnchecked(httpclient, base) ==
  [c |-> <<newClient(httpclient, base)>>, err |-> NilError]

\* NewCustomClient: [c, err]
NewCustomClient(httpclient, base) ==
  IF ~HasSuffix(base, <<"/">>)
  THEN [c |-> <<>>, err |-> NewError("BaseURL must have a trailing slash")]
  ELSE [c |-> <<newClient(httpclient, base)>>, err |-> NilError]

(***************************************************************************)
(* Requests and options.                                                   *)
(***************************************************************************)
headerEndUserCtx == "X-EBAY-C-ENDUSERCTX"

headerMarketplaceID == "X-EBAY-C-MARKETPLACE-ID"

\* The header of a request that carries a body.
headerContentType == "Content-Type"

HeaderNames == {headerContentType, headerEndUserCtx, headerMarketplaceID}

\* http.Header: each name has a list of values, empty when the name is absent.
EmptyHeader == [h \in HeaderNames |-> <<>>]

\* Header.Get: the first value, "" when there is none.
HeaderGet(header, name) == IF Len(header[name]) = 0 THEN <<>> ELSE header[name][1]

\* Header.Set: the name holds the single value v.
HeaderSet(header, name, v) == [header EXCEPT ![name] = <<v>>]

\* OptBuyMarketplace that adds the value to the ones the header holds
\* (Header.Add): C17 tells it from OptBuyMarketplace.
OptBuyMarketplaceAdded(marketplaceID, r) ==
  [r EXCEPT !.Header =
     [r.Header EXCEPT ![headerMarketplaceID] = Append(@, marketplaceID)]]

\* OptBuyMarketplace(marketplaceID), applied to req.
OptBuyMarketplace(marketplaceID, r) ==
  [r EXCEPT !.Header = HeaderSet(r.Header, headerMarketplaceID, marketplaceID)]

contextualLocationKey == <<"c", "o", "n", "t", "e", "x", "t", "u", "a", "l", "L", "o", "c", "a", "t", "i", "o", "n", "=">>

\* fmt.Sprintf("country=%s,zip=%s", country, zip)
countryZip(country, zip) == <<"c", "o", "u", "n", "t", "r", "y", "=">> \o country \o <<",", "z", "i", "p", "=">> \o zip

\* The location written over the value the header holds: C16 tells it from
\* appendLocation.
locationAlone(v, country, zip, r) ==
  [r EXCEPT !.Header =
     HeaderSet(r.Header, headerEndUserCtx,
               contextualLocationKey \o QueryEscape(countryZip(country, zip)))]

\* OptBrowseContextualLocation(country, zip), applied to req.
appendLocation(v, country, zip, r) ==
  [r EXCEPT !.Header =
     HeaderSet(r.Header, headerEndUserCtx,
               (IF Len(v) > 0 THEN v \o <<",">> ELSE v)
               \o contextualLocationKey \o QueryEscape(countryZip(country, zip)))]

OptBrowseContextualLocation(country, zip, r) ==
  appendLocation(HeaderGet(r.Header, headerEndUserCtx), country, zip, r)

\* The modelled ASCII characters in the order of their codes.
AsciiOrder ==
  <<" ", "\"", "#", "%", "&", "+", ",", "-", ".", "/",
    "0", "1", "2", "3", "4", "5", "6", "7", "8", "9", ":", ";", "<", "=", ">", "?",
    "A", "B", "C", "D", "E", "F", "G", "H", "I", "J", "K", "L", "M",
    "N", "O", "P", "Q", "R", "S", "T", "U", "V", "W", "X", "Y", "Z", "\\", "_",
    "a", "b", "c", "d", "e", "f", "g", "h", "i", "j", "k", "l", "m",
    "n", "o", "p", "q", "r", "s", "t", "u", "v", "w", "x", "y", "z", "|", "~">>

\* The place of a byte in the order of the codes; a byte outside the
\* modelled alphabet comes last.
byteRank(c) == IF Index(AsciiOrder, c) = 0 THEN Len(AsciiOrder) + 1 ELSE Index(AsciiOrder, c)

\* s < t, as sort.Strings compares.
RECURSIVE stringLess(_, _)
stringLess(str, t) ==
  IF Len(t) = 0 THEN FALSE
  ELSE IF Len(str) = 0 THEN TRUE
  ELSE IF str[1] = t[1] THEN stringLess(Tail(str), Tail(t))
  ELSE byteRank(str[1]) < byteRank(t[1])

\* url.Values is a map from a key to the list of its values: here the
\* entries [k, vs] in the order of the keys, which is the order Encode
\* writes them in.
\* Values.Add that puts a new key after the keys the map holds, so that
\* Encode writes the keys in the order they were added: C23 tells it from
\* valuesAdd.
RECURSIVE valuesAddLast(_, _, _)
valuesAddLast(m, k, v) ==
  IF Len(m) = 0 THEN <<[k |-> k, vs |-> <<v>>]>>
  ELSE IF m[1].k = k THEN <<[k |-> k, vs |-> Append(m[1].vs, v)]>> \o Tail(m)
  ELSE <<m[1]>> \o valuesAddLast(Tail(m), k, v)

\* Values.Add(k, v): v is appended to the values of k.
RECURSIVE valuesAdd(_, _, _)
valuesAdd(m, k, v) ==
  IF Len(m) = 0 THEN <<[k |-> k, vs |-> <<v>>]>>
  ELSE IF m[1].k = k THEN <<[k |-> k, vs |-> Append(m[1].vs, v)]>> \o Tail(m)
  ELSE IF stringLess(k, m[1].k) THEN <<[k |-> k, vs |-> <<v>>]>> \o m
  ELSE <<m[1]>> \o valuesAdd(Tail(m), k, v)

\* url.parseQuery, one "key=value" between two "&": a part with a semicolon,
\* an empty part and a part whose key or value is no valid escaping are left
\* out (their error is dropped by URL.Query).
parsePair(m, part, key, val) ==
  IF Len(part) = 0 \/ Contains(part, ";") \/ ~key.ok \/ ~val.ok THEN m
  ELSE valuesAdd(m, key.val, val.val)

RECURSIVE parsePairs(_, _)
parsePairs(m, query) ==
  IF Len(query) = 0 THEN m
  ELSE parsePairs(
         parsePair(m, CutBefore(query, "&"),
                   unescape(CutBefore(CutBefore(query, "&"), "="), "queryComponent"),
                   unescape(CutAfter(CutBefore(query, "&"), "="), "queryComponent")),
         CutAfter(query, "&"))

\* URL.Query()
URLQuery(u) == parsePairs(<<>>, u.RawQuery)

\* Values.Encode, the values of one key: key=value&key=value.
RECURSIVE encodeValues(_, _, _)
encodeValues(k, vs, i) ==
  IF i > Len(vs) THEN <<>>
  ELSE (IF i > 1 THEN <<"&">> ELSE <<>>)
       \o QueryEscape(k) \o <<"=">> \o QueryEscape(vs[i]) \o encodeValues(k, vs, i + 1)

\* Values.Encode: the keys in sorted order.
RECURSIVE valuesEncode(_, _)
valuesEncode(m, i) ==
  IF i > Len(m) THEN <<>>
  ELSE (IF i > 1 THEN <<"&">> ELSE <<>>)
       \o encodeValues(m[i].k, m[i].vs, 1) \o valuesEncode(m, i + 1)

\* optSearch(param)(v), applied to req.
optSearch(param, v, r) ==
  [r EXCEPT !.URL.RawQuery = valuesEncode(valuesAdd(URLQuery(r.URL), param, v), 1)]

\* strconv.Itoa of a natural number.
RECURSIVE Itoa(_)
Itoa(n) ==
  IF n < 10 THEN <<<<"0", "1", "2", "3", "4", "5", "6", "7", "8", "9">>[n + 1]>>
  ELSE Itoa(n \div 10) \o Itoa(n % 10)

\* The query key of each option that optSearch makes.
searchParam(name) ==
  CASE name = "OptBrowseSearch" -> <<"q">>
    [] name = "OptBrowseSearchSort" -> <<"s", "o", "r", "t">>
    [] name = "OptBrowseSearchLimit" -> <<"l", "i", "m", "i", "t">>

\* An option value: the constructor that made it and its arguments.
ApplyOpt(opt, r) ==
  CASE opt.name = "OptBuyMarketplace" -> OptBuyMarketplace(opt.a, r)
    [] opt.name = "OptBrowseContextualLocation" ->
         OptBrowseContextualLocation(opt.a, opt.b, r)
    [] opt.name \in {"OptBrowseSearch", "OptBrowseSearchSort"} ->
         optSearch(searchParam(opt.name), opt.a, r)
    [] opt.name = "OptBrowseSearchLimit" ->
         optSearch(searchParam(opt.name), Itoa(opt.n), r)

\* The option loop run from the last option to the first: C4 tells it from
\* ApplyOpts.
RECURSIVE ApplyOptsBackwards(_, _, _)
ApplyOptsBackwards(opts, r, log) ==
  IF Len(opts) = 0 THEN [req |-> r, log |-> log]
  ELSE ApplyOptsBackwards(SubSeq(opts, 1, Len(opts) - 1), ApplyOpt(opts[Len(opts)], r),
                          Append(log, [opt |-> opts[Len(opts)], seen |-> r]))

\* for _, opt := range opts { opt(req) }: the request after the loop, and the
\* log of the calls made: each option with the request it received.
RECURSIVE ApplyOpts(_, _, _)
ApplyOpts(opts, r, log) ==
  IF Len(opts) = 0 THEN [req |-> r, log |-> log]
  ELSE ApplyOpts(Tail(opts), ApplyOpt(opts[1], r),
                 Append(log, [opt |-> opts[1], seen |-> r]))

\* net/http validMethod: a non-empty token.
isToken(c) ==
  IsLetter(c) \/ IsDigit(c)
  \/ c \in {"!", "#", "$", "%", "&", "'", "*", "+", "-", ".", "^", "_", "|", "~"}

validMethod(method) == Len(method) > 0 /\ \A i \in 1..Len(method) : isToken(method[i])

\* net/http removeEmptyPort: "host:" is "host".
removeEmptyPort(host) ==
  IF HasSuffix(host, <<":">>) THEN SubSeq(host, 1, Len(host) - 1) ELSE host

\* http.NewRequest, given the method and what url.Parse returned.
httpRequestOf(m, u) ==
  IF ~validMethod(m) \/ ~u.ok
  THEN [ok |-> FALSE, req |-> <<>>]
  ELSE [ok |-> TRUE,
        req |-> <<[Method |-> m,
                   URL    |-> [u.u EXCEPT !.Host = removeEmptyPort(u.u.Host)],
                   Header |-> EmptyHeader,
                   Host   |-> removeEmptyPort(u.u.Host),
                   Body   |-> <<>>]>>]

\* http.NewRequest(method, url, nil): [ok, req].  An empty method is GET.
\* Body is nil (<<>>), or <<text>> for a request with a body.
HTTPNewRequest(method, rawurl) ==
  httpRequestOf(IF method = <<>> THEN <<"G", "E", "T">> ELSE method, Parse(rawurl))

\* What a call that did not return a request yields.
NoRequest(err, panicked) ==
  [req |-> <<>>, err |-> err, panicked |-> panicked, log |-> <<>>]

\* Client.NewRequest, the return: the request after the option loop.
requestReturned(done) ==
  [req |-> <<done.req>>, err |-> NilError, panicked |-> FALSE, log |-> done.log]

\* Client.NewRequest, from http.NewRequest on: its error is returned with a
\* stack, else every option is applied to the request.
newRequestOpts(r, opts) ==
  IF ~r.ok THEN NoRequest(WithStack(NewError("net/http")), FALSE)
  ELSE requestReturned(ApplyOpts(opts, r.req[1], <<>>))

\* Client.NewRequest, from c.baseURL.Parse(url) on.  URL.Parse returns the
\* error of a reference that does not parse; else it dereferences c.baseURL,
\* and the call panics when that is nil.
newRequestRef(c, method, ref, opts) ==
  IF ~ref.ok THEN NoRequest(WithStack(NewError("parse")), FALSE)
  ELSE IF c.baseURL = <<>> THEN NoRequest(NilError, TRUE)
  ELSE newRequestOpts(
         HTTPNewRequest(method, String(ResolveReference(c.baseURL[1], ref.u))), opts)

\* NewRequest with no test of the leading slash: C1 tells it from NewRequest.
NewRequestUnchecked(c, method, url, opts) == newRequestRef(c, method, Parse(url), opts)

\* Client.NewRequest(method, url, opts...): [req, err, panicked, log].
NewRequest(c, method, url, opts) ==
  IF HasPrefix(url, <<"/">>)
  THEN NoRequest(NewError("url should always be specified without a preceding slash"),
                 FALSE)
  ELSE newRequestRef(c, method, Parse(url), opts)

(***************************************************************************)
(* encoding/json.  A JSON text is a record [t, n, s, a]: t is its kind     *)
(* ("null", "bool", "num", "str", "arr", "obj"), n the number, s the       *)
(* string, a the elements of an array or the members [k, v] of an object,  *)
(* in the order of the text.  The keys of one object are distinct.         *)
(***************************************************************************)
JNull == [t |-> "null", n |-> 0, s |-> <<>>, a |-> <<>>]

JBool == [t |-> "bool", n |-> 1, s |-> <<>>, a |-> <<>>]

JNum(n) == [t |-> "num", n |-> n, s |-> <<>>, a |-> <<>>]

JStr(str) == [t |-> "str", n |-> 0, s |-> str, a |-> <<>>]

JArr(elems) == [t |-> "arr", n |-> 0, s |-> <<>>, a |-> elems]

JObj(members) == [t |-> "obj", n |-> 0, s |-> <<>>, a |-> members]

\* One member of an object.
KV(k, v) == [k |-> k, v |-> v]

\* The Go types a value is decoded into: [k, elem, fields].  A struct type
\* lists its exported fields: the Go name, the JSON key (the tag, or the Go
\* name of a field with no tag) and the type.
IntT == [k |-> "int", elem |-> <<>>, fields |-> <<>>]

StringT == [k |-> "string", elem |-> <<>>, fields |-> <<>>]

SliceT(E) == [k |-> "slice", elem |-> <<E>>, fields |-> <<>>]

PtrT(E) == [k |-> "ptr", elem |-> <<E>>, fields |-> <<>>]

StructT(fields) == [k |-> "struct", elem |-> <<>>, fields |-> fields]

Field(name, key, type) == [name |-> name, key |-> key, type |-> type]

\* The element of ErrorData.Errors[i].Parameters.
ParameterT ==
  StructT(<<Field("Name", "name", StringT), Field("Value", "value", StringT)>>)

\* The element of ErrorData.Errors.
ErrorT ==
  StructT(<<Field("ErrorID", "errorId", IntT),
            Field("Domain", "domain", StringT),
            Field("SubDomain", "subDomain", StringT),
            Field("Category", "category", StringT),
            Field("Message", "message", StringT),
            Field("LongMessage", "longMessage", StringT),
            Field("InputRefIds", "inputRefIds", SliceT(StringT)),
            Field("OuputRefIds", "outputRefIds", SliceT(StringT)),
            Field("Parameters", "parameters", SliceT(ParameterT))>>)

\* http.Response, the field the model keeps.
ResponseT == StructT(<<Field("StatusCode", "StatusCode", IntT)>>)

\* ErrorData: Response and RequestDump are exported and carry no tag.
ErrorDataT ==
  StructT(<<Field("Errors", "errors", SliceT(ErrorT)),
            Field("Response", "Response", PtrT(ResponseT)),
            Field("RequestDump", "RequestDump", StringT)>>)

\* ProxyBid (offer.go), the destination of PlaceProxyBid.
ProxyBidT == StructT(<<Field("ProxyBidID", "proxyBidId", StringT)>>)

\* The zero value of a type.  A nil slice and an empty one are both <<>>.
RECURSIVE Zero(_)
Zero(T) ==
  CASE T.k = "int" -> 0
    [] T.k = "struct" ->
         [name \in {T.fields[i].name : i \in DOMAIN T.fields} |->
            Zero((CHOOSE f \in {T.fields[i] : i \in DOMAIN T.fields} : f.name = name).type)]
    [] OTHER -> <<>>

\* The lower-case form of a key that holds an upper-case letter
\* (bytes.EqualFold compares the folded forms).
KeyFold ==
  [k \in {"errorId", "ERRORS", "Errors", "Response", "RequestDump", "subDomain",
          "longMessage", "inputRefIds", "outputRefIds", "proxyBidId", "ProxyBidID",
          "StatusCode"} |->
     CASE k = "errorId" -> "errorid"
       [] k \in {"ERRORS", "Errors"} -> "errors"
       [] k = "Response" -> "response"
       [] k = "RequestDump" -> "requestdump"
       [] k = "subDomain" -> "subdomain"
       [] k = "longMessage" -> "longmessage"
       [] k = "inputRefIds" -> "inputrefids"
       [] k = "outputRefIds" -> "outputrefids"
       [] k = "proxyBidId" -> "proxybidid"
       [] k = "ProxyBidID" -> "proxybidid"
       [] k = "StatusCode" -> "statuscode"]

Fold(k) == IF k \in DOMAIN KeyFold THEN KeyFold[k] ELSE k

\* The field an object key is stored in: the first field whose key equals it,
\* else the first whose key equals it under case folding; 0 when none does.
fieldIndex(fields, key) ==
  IF \E i \in DOMAIN fields : fields[i].key = key
  THEN CHOOSE i \in DOMAIN fields :
         fields[i].key = key /\ \A j \in 1..(i - 1) : fields[j].key # key
  ELSE IF \E i \in DOMAIN fields : Fold(fields[i].key) = Fold(key)
  THEN CHOOSE i \in DOMAIN fields :
         /\ Fold(fields[i].key) = Fold(key)
         /\ \A j \in 1..(i - 1) : Fold(fields[j].key) # Fold(key)
  ELSE 0

\* decodeState.saveError: the first error is the one kept.
saveError(saved, err) == IF saved # "" THEN saved ELSE err

\* A JSON text of a kind the Go value cannot hold: the value is left alone
\* and an UnmarshalTypeError is saved.
typeError(cur) == [val |-> cur, err |-> "UnmarshalTypeError"]

\* The value decoded through a pointer: the pointer points to it.
pointerTo(r) == [val |-> <<r.val>>, err |-> r.err]

\* decodeState.value: the JSON text j decoded into the Go value cur of type T,
\* [val, err].  null makes a pointer or a slice nil and leaves any other value
\* alone; a nil pointer is allocated; an array replaces a slice, element by
\* element; each member of an object is decoded into the field its key names,
\* and a member that names no field is skipped.  Decoding goes on after a
\* type error.
RECURSIVE value(_, _, _)
RECURSIVE array(_, _, _, _)
RECURSIVE arrayElem(_, _, _, _, _)
RECURSIVE object(_, _, _, _)
RECURSIVE objectField(_, _, _, _, _)
RECURSIVE objectSet(_, _, _, _, _, _)
value(T, cur, j) ==
  CASE j.t = "null" ->
         [val |-> IF T.k \in {"ptr", "slice"} THEN <<>> ELSE cur, err |-> ""]
    [] j.t # "null" /\ T.k = "ptr" ->
         pointerTo(value(T.elem[1], IF cur = <<>> THEN Zero(T.elem[1]) ELSE cur[1], j))
    [] j.t = "num" /\ T.k = "int" -> [val |-> j.n, err |-> ""]
    [] j.t = "str" /\ T.k = "string" -> [val |-> j.s, err |-> ""]
    [] j.t = "arr" /\ T.k = "slice" -> array(T.elem[1], j.a, <<>>, "")
    [] j.t = "obj" /\ T.k = "struct" -> object(T, cur, j.a, "")
    [] OTHER -> typeError(cur)

\* decodeState.array into a slice that starts empty.
array(E, elems, acc, err) ==
  IF Len(elems) = 0 THEN [val |-> acc, err |-> err]
  ELSE arrayElem(E, elems, acc, err, value(E, Zero(E), elems[1]))

\* An array decoded with each element put before the ones already decoded: C8
\* tells it from arrayElem.
RECURSIVE arrayElemFirst(_, _, _, _, _)
arrayElemFirst(E, elems, acc, err, r) ==
  array(E, Tail(elems), <<r.val>> \o acc, saveError(err, r.err))

arrayElem(E, elems, acc, err, r) ==
  array(E, Tail(elems), Append(acc, r.val), saveError(err, r.err))

\* decodeState.object into a struct.
object(T, cur, members, err) ==
  IF Len(members) = 0 THEN [val |-> cur, err |-> err]
  ELSE objectField(T, cur, members, err, fieldIndex(T.fields, members[1].k))

objectField(T, cur, members, err, i) ==
  IF i = 0 THEN object(T, cur, Tail(members), err)
  ELSE objectSet(T, cur, members, err, T.fields[i].name,
                 value(T.fields[i].type, cur[T.fields[i].name], members[1].v))

objectSet(T, cur, members, err, name, r) ==
  object(T, [cur EXCEPT ![name] = r.val], Tail(members), saveError(err, r.err))

\* A response body: no byte at all, bytes that are not a JSON text, a JSON
\* text, or a JSON text with bytes that are no JSON after it.
EmptyBody == [kind |-> "empty", val |-> JNull]

GarbageBody == [kind |-> "garbage", val |-> JNull]

JSONBody(j) == [kind |-> "json", val |-> j]

TrailingBody(j) == [kind |-> "trailing", val |-> j]

\* An error of the decoder, as an error value.
decodeError(err) == IF err = "" THEN NilError ELSE NewError(err)

decoded(r) == [val |-> r.val, err |-> decodeError(r.err)]

\* A decoder that takes an empty body for a value: C30 tells it from Decode.
DecodeEmptyAccepted(body, T, cur) ==
  CASE body.kind = "empty" -> [val |-> cur, err |-> NilError]
    [] body.kind = "garbage" -> [val |-> cur, err |-> NewError("SyntaxError")]
    [] body.kind \in {"json", "trailing"} -> decoded(value(T, cur, body.val))

\* json.NewDecoder(body).Decode(v), v a pointer to cur of type T: [val, err].
\* The decoder reads one whole JSON text before it stores anything: io.EOF for
\* an empty body, a SyntaxError for bytes that are no JSON text.  It reads no
\* further than the end of the first JSON text.
Decode(body, T, cur) ==
  CASE body.kind = "empty" -> [val |-> cur, err |-> NewError("EOF")]
    [] body.kind = "garbage" -> [val |-> cur, err |-> NewError("SyntaxError")]
    [] body.kind \in {"json", "trailing"} -> decoded(value(T, cur, body.val))

(***************************************************************************)
(* encoding/json, the encoder.  A value handed to it is an interface       *)
(* value: nil (<<>>) or <<[T, val]>>, a value val of the Go type T.        *)
(***************************************************************************)
BoolT == [k |-> "bool", elem |-> <<>>, fields |-> <<>>]

\* A type the encoder has no encoding for.
ChanT == [k |-> "chan", elem |-> <<>>, fields |-> <<>>]

\* A struct field as the encoder reads it: the JSON key of the tag, and
\* whether the tag says omitempty.
TaggedField(name, key, type, omitempty) ==
  [name |-> name, key |-> key, type |-> type, omitempty |-> omitempty]

\* true or false.
JBoolOf(b) == [t |-> "bool", n |-> IF b THEN 1 ELSE 0, s |-> <<>>, a |-> <<>>]

\* isEmptyValue: what omitempty leaves out.  A struct is never empty.
isEmptyValue(T, val) ==
  CASE T.k = "bool" -> val = FALSE
    [] T.k = "int" -> val = 0
    [] T.k \in {"string", "slice", "ptr"} -> val = <<>>
    [] OTHER -> FALSE

\* Whether the encoder fails on val: it reaches a value of a type it has no
\* encoding for (UnsupportedTypeError).
RECURSIVE marshalFails(_, _)
marshalFails(T, val) ==
  CASE T.k = "chan" -> TRUE
    [] T.k = "ptr" -> val # <<>> /\ marshalFails(T.elem[1], val[1])
    [] T.k = "slice" -> \E i \in DOMAIN val : marshalFails(T.elem[1], val[i])
    [] T.k = "struct" ->
         \E i \in DOMAIN T.fields :
           /\ ~(T.fields[i].omitempty /\ isEmptyValue(T.fields[i].type, val[T.fields[i].name]))
           /\ marshalFails(T.fields[i].type, val[T.fields[i].name])
    [] OTHER -> FALSE

\* The JSON text of val: a struct gives an object with a member for each
\* field, in the order of the fields, less the empty fields tagged omitempty;
\* a nil pointer and a nil slice give null.
RECURSIVE marshal(_, _)
RECURSIVE structMembers(_, _, _)
marshal(T, val) ==
  CASE T.k = "bool" -> JBoolOf(val)
    [] T.k = "int" -> JNum(val)
    [] T.k = "string" -> JStr(val)
    [] T.k = "ptr" -> IF val = <<>> THEN JNull ELSE marshal(T.elem[1], val[1])
    [] T.k = "slice" ->
         IF val = <<>> THEN JNull
         ELSE JArr([i \in DOMAIN val |-> marshal(T.elem[1], val[i])])
    [] T.k = "struct" -> JObj(structMembers(T.fields, val, 1))
    [] OTHER -> JNull

structMembers(fields, val, i) ==
  IF i > Len(fields) THEN <<>>
  ELSE IF fields[i].omitempty /\ isEmptyValue(fields[i].type, val[fields[i].name])
  THEN structMembers(fields, val, i + 1)
  ELSE <<KV(fields[i].key, marshal(fields[i].type, val[fields[i].name]))>>
       \o structMembers(fields, val, i + 1)

\* One character of a string as the encoder writes it: the quote and the
\* backslash after a backslash, the characters of HTML as \u00XY.
quoted(c) ==
  CASE c = "\"" -> <<"\\", "\"">>
    [] c = "\\" -> <<"\\", "\\">>
    [] c = "<" -> <<"\\", "u", "0", "0", "3", "c">>
    [] c = ">" -> <<"\\", "u", "0", "0", "3", "e">>
    [] c = "&" -> <<"\\", "u", "0", "0", "2", "6">>
    [] OTHER -> <<c>>

RECURSIVE quotedChars(_)
quotedChars(str) ==
  IF Len(str) = 0 THEN <<>> ELSE quoted(str[1]) \o quotedChars(Tail(str))

\* A string between quotes.  A key is one token.
quotedString(str) == <<"\"">> \o quotedChars(str) \o <<"\"">>

\* The bytes of a JSON text, compact, as the encoder writes them.
RECURSIVE jsonText(_)
RECURSIVE elemsText(_, _)
RECURSIVE membersText(_, _)
jsonText(j) ==
  CASE j.t = "null" -> <<"n", "u", "l", "l">>
    [] j.t = "bool" -> IF j.n = 1 THEN <<"t", "r", "u", "e">>
                       ELSE <<"f", "a", "l", "s", "e">>
    [] j.t = "num" -> Itoa(j.n)
    [] j.t = "str" -> quotedString(j.s)
    [] j.t = "arr" -> <<"[">> \o elemsText(j.a, 1) \o <<"]">>
    [] j.t = "obj" -> <<"{">> \o membersText(j.a, 1) \o <<"}">>

elemsText(a, i) ==
  IF i > Len(a) THEN <<>>
  ELSE (IF i > 1 THEN <<",">> ELSE <<>>) \o jsonText(a[i]) \o elemsText(a, i + 1)

membersText(a, i) ==
  IF i > Len(a) THEN <<>>
  ELSE (IF i > 1 THEN <<",">> ELSE <<>>)
       \o <<"\"", a[i].k, "\"", ":">> \o jsonText(a[i].v) \o membersText(a, i + 1)

\* json.NewEncoder(buf).Encode(body), body not nil: [err, text].  The text
\* ends with a newline.
Encode(body) ==
  IF marshalFails(body[1].T, body[1].val)
  THEN [err |-> NewError("UnsupportedTypeError"), text |-> <<>>]
  ELSE [err |-> NilError,
        text |-> jsonText(marshal(body[1].T, body[1].val)) \o <<"\n">>]

(***************************************************************************)
(* Dispatch and error decoding (ebay.go).  A response is a record          *)
(* [StatusCode, Body, Closed].                                             *)
(***************************************************************************)
\* URL.RequestURI: the path and the query, as written on the request line.
requestURIOf(u, path) ==
  (IF u.Opaque # <<>>
   THEN (IF HasPrefix(u.Opaque, <<"/", "/">>) THEN u.Scheme \o <<":">> ELSE <<>>)
        \o u.Opaque
   ELSE IF path = <<>> THEN <<"/">> ELSE path)
  \o (IF u.ForceQuery \/ u.RawQuery # <<>> THEN <<"?">> \o u.RawQuery ELSE <<>>)

RequestURI(u) == requestURIOf(u, EscapedPath(u))

\* Header.Write of one name: a line for each of its values.
RECURSIVE headerLines(_, _)
headerLines(name, values) ==
  IF Len(values) = 0 THEN <<>>
  ELSE <<name, ":", " ">> \o values[1] \o <<"\r\n">> \o headerLines(name, Tail(values))

\* httputil.DumpRequest(req, true) of a request with no body, or one whose
\* body the transport has read to its end: the request line, the Host line
\* and the header lines in the order of their names.
DumpRequest(r) ==
  r.Method \o <<" ">> \o RequestURI(r.URL) \o <<" ", "HTTP/1.1", "\r\n">>
  \o (IF r.Host # <<>> THEN <<"Host", ":", " ">> \o r.Host \o <<"\r\n">> ELSE <<>>)
  \o headerLines(headerContentType, r.Header[headerContentType])
  \o headerLines(headerEndUserCtx, r.Header[headerEndUserCtx])
  \o headerLines(headerMarketplaceID, r.Header[headerMarketplaceID])
  \o <<"\r\n">>

\* &ErrorData{Response: resp, RequestDump: string(dump)}
NewErrorData(resp, dump) ==
  [Errors |-> <<>>, Response |-> <<[StatusCode |-> resp.StatusCode]>>,
   RequestDump |-> dump]

\* CheckResponse, the return: the error of the decoder is dropped.  The
\* Response of the error is a pointer to resp, so what the decoder stored
\* through it is stored in resp.
errorDataOf(resp, d) ==
  [err  |-> [kind |-> "ErrorData", data |-> d.val],
   resp |-> IF d.val.Response = <<>> THEN resp
            ELSE [resp EXCEPT !.StatusCode = d.val.Response[1].StatusCode]]

\* CheckResponse that takes 300 for a success: C7 tells it from CheckResponse.
CheckResponseUpTo300(r, resp) ==
  IF 200 <= resp.StatusCode /\ resp.StatusCode <= 300
  THEN [err |-> NilError, resp |-> resp]
  ELSE errorDataOf(resp, Decode(resp.Body, ErrorDataT, NewErrorData(resp, DumpRequest(r))))

\* CheckResponse(req, resp): [err, resp].
CheckResponse(r, resp) ==
  IF 200 <= resp.StatusCode /\ resp.StatusCode < 300
  THEN [err |-> NilError, resp |-> resp]
  ELSE errorDataOf(resp, Decode(resp.Body, ErrorDataT, NewErrorData(resp, DumpRequest(r))))

\* A response whose body is left open: C11 tells it from closeBody.
bodyLeftOpen(resp) == resp

\* defer resp.Body.Close()
closeBody(resp) == [resp EXCEPT !.Closed = TRUE]

\* Do that returns without storing what was decoded: C5 tells it from
\* doDecoded.
doNotStored(resp, T, d) ==
  [err |-> WithStack(d.err), v |-> <<[T |-> T, val |-> Zero(T)]>>,
   resp |-> <<closeBody(resp)>>, calls |-> <<"client.Do", "CheckResponse", "Decode">>]

\* Do that reports no error after the success body is decoded: C12 tells it
\* from doDecoded.
doDecodeErrorDropped(resp, T, d) ==
  [err |-> NilError, v |-> <<[T |-> T, val |-> d.val]>>,
   resp |-> <<closeBody(resp)>>, calls |-> <<"client.Do", "CheckResponse", "Decode">>]

\* Client.Do, the return after the success body is decoded into v.
doDecoded(resp, T, d) ==
  [err |-> WithStack(d.err), v |-> <<[T |-> T, val |-> d.val]>>,
   resp |-> <<closeBody(resp)>>, calls |-> <<"client.Do", "CheckResponse", "Decode">>]

\* Do that decodes the body into the destination whatever CheckResponse
\* returned: C6 tells it from doChecked.
doCheckedThenDecoded(chk, v) ==
  IF v = <<>>
  THEN [err |-> chk.err, v |-> v, resp |-> <<closeBody(chk.resp)>>,
        calls |-> <<"client.Do", "CheckResponse">>]
  ELSE [err   |-> chk.err,
        v     |-> <<[T |-> v[1].T, val |-> Decode(chk.resp.Body, v[1].T, v[1].val).val]>>,
        resp  |-> <<closeBody(chk.resp)>>,
        calls |-> <<"client.Do", "CheckResponse", "Decode">>]

\* Do that decodes the body of a success even with no destination, to report
\* its error: C13 tells it from doChecked.
doCheckedBodyValidated(chk, v) ==
  IF chk.err.kind # "nil"
  THEN [err |-> chk.err, v |-> v, resp |-> <<closeBody(chk.resp)>>,
        calls |-> <<"client.Do", "CheckResponse">>]
  ELSE IF v = <<>>
  THEN [err |-> WithStack(Decode(chk.resp.Body, ProxyBidT, Zero(ProxyBidT)).err), v |-> v,
        resp |-> <<closeBody(chk.resp)>>,
        calls |-> <<"client.Do", "CheckResponse", "Decode">>]
  ELSE doDecoded(chk.resp, v[1].T, Decode(chk.resp.Body, v[1].T, v[1].val))

\* Client.Do, from CheckResponse on: its error is returned as it is; with no
\* error and a destination, the body is decoded into the destination.
doChecked(chk, v) ==
  IF chk.err.kind # "nil"
  THEN [err |-> chk.err, v |-> v, resp |-> <<closeBody(chk.resp)>>,
        calls |-> <<"client.Do", "CheckResponse">>]
  ELSE IF v = <<>>
  THEN [err |-> NilError, v |-> v, resp |-> <<closeBody(chk.resp)>>,
        calls |-> <<"client.Do", "CheckResponse">>]
  ELSE doDecoded(chk.resp, v[1].T, Decode(chk.resp.Body, v[1].T, v[1].val))

\* Do that reports no error when the transport fails: C14 tells it from Do.
DoTransportErrorDropped(c, sent, r, v) ==
  IF sent.err.kind # "nil"
  THEN [err |-> NilError, v |-> v, resp |-> <<>>, calls |-> <<"client.Do">>]
  ELSE doChecked(CheckResponse(r, sent.resp[1]), v)

\* Do that sends the request again when the transport failed: C24 tells it
\* from Do.
DoSentTwice(c, sent, r, v) ==
  IF sent.err.kind # "nil"
  THEN [err |-> WithStack(sent.err), v |-> v, resp |-> <<>>,
        calls |-> <<"client.Do", "client.Do">>]
  ELSE doChecked(CheckResponse(r, sent.resp[1]), v)

\* Client.Do(ctx, req, v): [err, v, resp, calls].  sent is what c.client.Do
\* returned: an error, or a response.  v is nil or a pointer to a value of
\* type T.  calls lists the calls Do made on the way.
Do(c, sent, r, v) ==
  IF sent.err.kind # "nil"
  THEN [err |-> WithStack(sent.err), v |-> v, resp |-> <<>>, calls |-> <<"client.Do">>]
  ELSE doChecked(CheckResponse(r, sent.resp[1]), v)

\* req.WithContext(ctx): the request bound to the context.  A context is
\* "live", "canceled" or "deadlineExceeded": what it is while the transport
\* waits for the response.
WithContext(r, ctx) == [req |-> r, ctx |-> ctx]

\* c.client.Do(req): the transport gives up with the error of the context of
\* the request when the context is done before the response is received,
\* else it returns what the server sent (or its own failure).
clientDo(bound, served) ==
  CASE bound.ctx = "canceled" -> [err |-> NewError("context canceled"), resp |-> <<>>]
    [] bound.ctx = "deadlineExceeded" ->
         [err |-> NewError("context deadline exceeded"), resp |-> <<>>]
    [] OTHER -> served

\* Do that sends the request as NewRequest built it, bound to no context of
\* the caller: C25 tells it from DoContext.
DoContextUnbound(c, ctx, served, r, v) ==
  Do(c, clientDo(WithContext(r, "live"), served), r, v)

\* Client.Do(ctx, req, v), with the context of the caller and what the
\* server sends: c.client.Do(req.WithContext(ctx)) and the rest of Do.
DoContext(c, ctx, served, r, v) ==
  Do(c, clientDo(WithContext(r, ctx), served), r, v)

\* ErrorData.Error needs the status code of Response: it panics when
\* Response is nil.
ErrorPanics(err) == err.kind = "ErrorData" /\ err.data.Response = <<>>

\* fmt's %+v of a value of type T: a struct is {Name:value Name:value}, a
\* slice [value value], a string its bytes, an int its decimal digits.
RECURSIVE formatPlusV(_, _)
RECURSIVE formatFields(_, _, _)
RECURSIVE formatElems(_, _, _)
formatPlusV(T, val) ==
  CASE T.k = "int" -> Itoa(val)
    [] T.k = "string" -> val
    [] T.k = "slice" -> <<"[">> \o formatElems(T.elem[1], val, 1) \o <<"]">>
    [] T.k = "struct" -> <<"{">> \o formatFields(T.fields, val, 1) \o <<"}">>

formatFields(fields, val, i) ==
  IF i > Len(fields) THEN <<>>
  ELSE (IF i > 1 THEN <<" ">> ELSE <<>>)
       \o <<fields[i].name, ":">> \o formatPlusV(fields[i].type, val[fields[i].name])
       \o formatFields(fields, val, i + 1)

formatElems(E, val, i) ==
  IF i > Len(val) THEN <<>>
  ELSE (IF i > 1 THEN <<" ">> ELSE <<>>) \o formatPlusV(E, val[i])
       \o formatElems(E, val, i + 1)

\* e.Error(): [panicked, msg].  fmt.Sprintf("%d %s: %+v", e.Response.StatusCode,
\* e.RequestDump, e.Errors); the read of e.Response.StatusCode panics when
\* Response is nil.
ErrorString(e) ==
  IF e.Response = <<>> THEN [panicked |-> TRUE, msg |-> <<>>]
  ELSE [panicked |-> FALSE,
        msg |-> Itoa(e.Response[1].StatusCode) \o <<" ">> \o e.RequestDump \o <<":", " ">>
                \o formatPlusV(SliceT(ErrorT), e.Errors)]

\* The loop over the codes that stops after the first code: C10 tells it from
\* codeMatches.
codeMatchesFirst(id, codes) == Len(codes) > 0 /\ id = codes[1]

\* IsError, the loop over the codes for one record.
RECURSIVE codeMatches(_, _)
codeMatches(id, codes) ==
  IF Len(codes) = 0 THEN FALSE
  ELSE IF id = codes[1] THEN TRUE
  ELSE codeMatches(id, Tail(codes))

\* IsError, the loop over the records.
RECURSIVE anyRecordMatches(_, _)
anyRecordMatches(records, codes) ==
  IF Len(records) = 0 THEN FALSE
  ELSE IF codeMatches(records[1].ErrorID, codes) THEN TRUE
  ELSE anyRecordMatches(Tail(records), codes)

\* IsError(err, codes...): err is an *ErrorData with a record whose ErrorID is
\* one of the codes.
IsError(err, codes) ==
  IF err.kind # "ErrorData" THEN FALSE
  ELSE anyRecordMatches(err.data.Errors, codes)

(***************************************************************************)
(* Requests with a body.  The wrappers that send a payload call            *)
(* NewRequest(method, url, body, opts...): the body, when not nil, is      *)
(* serialized to JSON and attached with its content type, and a failure    *)
(* of the serialization is returned at once.                               *)
(***************************************************************************)
applicationJSON == <<"application/json">>

\* The request with the text as its body and the content type of JSON.
attachBody(r, text) ==
  [r EXCEPT !.Body = <<text>>,
            !.Header = HeaderSet(@, headerContentType, applicationJSON)]

\* What http.NewRequest returned, with the body attached when there is one.
bodyAttached(r, body, enc) ==
  IF ~r.ok \/ body = <<>> THEN r
  ELSE [ok |-> TRUE, req |-> <<attachBody(r.req[1], enc.text)>>]

\* A body that is serialized though its serialization failed: C19 tells it
\* from newRequestEncoded.
newRequestEncodedLate(c, method, ref, body, enc, opts) ==
  newRequestOpts(
    bodyAttached(HTTPNewRequest(method, String(ResolveReference(c.baseURL[1], ref.u))),
                 body, enc),
    opts)

\* NewRequest with a body, from the serialization on.
newRequestEncoded(c, method, ref, body, enc, opts) ==
  IF body # <<>> /\ enc.err.kind # "nil"
  THEN NoRequest(WithStack(enc.err), FALSE)
  ELSE newRequestOpts(
         bodyAttached(HTTPNewRequest(method, String(ResolveReference(c.baseURL[1], ref.u))),
                      body, enc),
         opts)

\* NewRequest with a body, from the resolution of the path on.
newRequestBodyRef(c, method, ref, body, opts) ==
  IF ~ref.ok THEN NoRequest(WithStack(NewError("parse")), FALSE)
  ELSE IF c.baseURL = <<>> THEN NoRequest(NilError, TRUE)
  ELSE newRequestEncoded(c, method, ref, body,
                         IF body = <<>> THEN [err |-> NilError, text |-> <<>>]
                         ELSE Encode(body),
                         opts)

\* Client.NewRequest(method, url, body, opts...): [req, err, panicked, log].
NewRequestBody(c, method, url, body, opts) ==
  IF HasPrefix(url, <<"/">>)
  THEN NoRequest(NewError("url should always be specified without a preceding slash"),
                 FALSE)
  ELSE newRequestBodyRef(c, method, Parse(url), body, opts)

(***************************************************************************)
(* OfferService.PlaceProxyBid (offer.go).                                  *)
(***************************************************************************)
\* The field MaxAmount of the payload.
MaxAmountT ==
  StructT(<<TaggedField("Currency", "currency", StringT, FALSE),
            TaggedField("Value", "value", StringT, FALSE)>>)

\* The field UserConsent of the payload.
UserConsentT == StructT(<<TaggedField("AdultOnlyItem", "adultOnlyItem", BoolT, FALSE)>>)

\* The payload pl: both fields are structs, and neither tag says omitempty.
ProxyBidPayloadT ==
  StructT(<<TaggedField("MaxAmount", "maxAmount", MaxAmountT, FALSE),
            TaggedField("UserConsent", "userConsent", UserConsentT, FALSE)>>)

\* &pl, as the interface value handed to NewRequest.
proxyBidPayload(currency, maxAmount, userConsentAdultOnlyItem) ==
  <<[T   |-> PtrT(ProxyBidPayloadT),
     val |-> <<[MaxAmount   |-> [Currency |-> currency, Value |-> maxAmount],
                UserConsent |-> [AdultOnlyItem |-> userConsentAdultOnlyItem]]>>]>>

\* fmt.Sprintf("buy/offer/v1_beta/bidding/%s/place_proxy_bid", itemID)
placeProxyBidURL(itemID) ==
  <<"b", "u", "y", "/", "o", "f", "f", "e", "r", "/", "v", "1", "_", "b", "e", "t", "a",
    "/", "b", "i", "d", "d", "i", "n", "g", "/">>
  \o itemID
  \o <<"/", "p", "l", "a", "c", "e", "_", "p", "r", "o", "x", "y", "_", "b", "i", "d">>

\* PlaceProxyBid, the return after Do.
placeProxyBidDone(r, d) ==
  [p |-> d.v[1].val, err |-> d.err, panicked |-> FALSE, req |-> r.req, resp |-> d.resp]

\* PlaceProxyBid, from the return of NewRequest on: its error is returned
\* with the zero ProxyBid, else the request is sent and the response decoded
\* into p.
placeProxyBidBuilt(c, sent, r) ==
  IF r.panicked
  THEN [p |-> Zero(ProxyBidT), err |-> NilError, panicked |-> TRUE, req |-> <<>>,
        resp |-> <<>>]
  ELSE IF r.err.kind # "nil"
  THEN [p |-> Zero(ProxyBidT), err |-> r.err, panicked |-> FALSE, req |-> <<>>,
        resp |-> <<>>]
  ELSE placeProxyBidDone(
         r, Do(c, sent, r.req[1], <<[T |-> ProxyBidT, val |-> Zero(ProxyBidT)]>>))

\* s.PlaceProxyBid(ctx, itemID, marketplaceID, maxAmount, currency,
\* userConsentAdultOnlyItem, opts...): [p, err, panicked, req, resp], req the
\* request it sent and sent what the transport returned.
PlaceProxyBid(c, sent, itemID, marketplaceID, maxAmount, currency, userConsentAdultOnlyItem, opts) ==
  placeProxyBidBuilt(
    c, sent,
    NewRequestBody(c, <<"P", "O", "S", "T">>, placeProxyBidURL(itemID),
                   proxyBidPayload(currency, maxAmount, userConsentAdultOnlyItem),
                   Append(opts, [name |-> "OptBuyMarketplace", a |-> marketplaceID,
                                 b |-> <<>>])))

(***************************************************************************)
(* OfferService.GetBidding (offer.go), BrowseService.CheckCompatibility.   *)
(***************************************************************************)
\* Item, the destination of GetBidding: the field the model keeps.
ItemT == StructT(<<Field("ItemID", "itemId", StringT)>>)

\* Compatibility, the destination of CheckCompatibility: the field the model
\* keeps.
CompatibilityT == StructT(<<Field("CompatibilityStatus", "compatibilityStatus", StringT)>>)

\* A wrapper, from the return of NewRequest on: its error is returned with
\* the zero value, else the request is sent and the response decoded into a
\* value of type T.  [p, err, panicked, req, resp].
wrapperBuilt(c, sent, r, T) ==
  IF r.panicked
  THEN [p |-> Zero(T), err |-> NilError, panicked |-> TRUE, req |-> <<>>, resp |-> <<>>]
  ELSE IF r.err.kind # "nil"
  THEN [p |-> Zero(T), err |-> r.err, panicked |-> FALSE, req |-> <<>>, resp |-> <<>>]
  ELSE placeProxyBidDone(r, Do(c, sent, r.req[1], <<[T |-> T, val |-> Zero(T)]>>))

\* fmt.Sprintf("buy/offer/v1_beta/bidding/%s", itemID)
getBiddingURL(itemID) ==
  <<"b", "u", "y", "/", "o", "f", "f", "e", "r", "/", "v", "1", "_", "b", "e", "t", "a",
    "/", "b", "i", "d", "d", "i", "n", "g", "/">>
  \o itemID

\* GetBidding with its marketplace option put before the options of the
\* caller: C27 tells it from GetBidding.
GetBiddingOptionFirst(c, sent, itemID, marketplaceID, opts) ==
  wrapperBuilt(
    c, sent,
    NewRequestBody(c, <<"G", "E", "T">>, getBiddingURL(itemID), <<>>,
                   <<[name |-> "OptBuyMarketplace", a |-> marketplaceID, b |-> <<>>]>>
                   \o opts),
    ItemT)

\* s.GetBidding(ctx, itemID, marketplaceID, opts...)
GetBidding(c, sent, itemID, marketplaceID, opts) ==
  wrapperBuilt(
    c, sent,
    NewRequestBody(c, <<"G", "E", "T">>, getBiddingURL(itemID), <<>>,
                   Append(opts, [name |-> "OptBuyMarketplace", a |-> marketplaceID,
                                 b |-> <<>>])),
    ItemT)

\* CompatibilityProperty, and the payload of CheckCompatibility.
CompatibilityPropertyT ==
  StructT(<<TaggedField("Name", "name", StringT, FALSE),
            TaggedField("Value", "value", StringT, FALSE)>>)

CompatibilityPayloadT ==
  StructT(<<TaggedField("CompatibilityProperties", "compatibilityProperties",
                        SliceT(CompatibilityPropertyT), FALSE)>>)

\* &pl, pl := payload{properties}
compatibilityPayload(properties) ==
  <<[T |-> PtrT(CompatibilityPayloadT),
     val |-> <<[CompatibilityProperties |-> properties]>>]>>

\* fmt.Sprintf("buy/browse/v1/item/%s/check_compatibility", itemID)
checkCompatibilityURL(itemID) ==
  <<"b", "u", "y", "/", "b", "r", "o", "w", "s", "e", "/", "v", "1", "/", "i", "t", "e", "m",
    "/">>
  \o itemID
  \o <<"/", "c", "h", "e", "c", "k", "_", "c", "o", "m", "p", "a", "t", "i", "b", "i", "l",
       "i", "t", "y">>

\* s.CheckCompatibility(ctx, itemID, marketplaceID, properties, opts...)
CheckCompatibility(c, sent, itemID, marketplaceID, properties, opts) ==
  wrapperBuilt(
    c, sent,
    NewRequestBody(c, <<"P", "O", "S", "T">>, checkCompatibilityURL(itemID),
                   compatibilityPayload(properties),
                   Append(opts, [name |-> "OptBuyMarketplace", a |-> marketplaceID,
                                 b |-> <<>>])),
    CompatibilityT)

(***************************************************************************)
(* The wrappers, statement by statement, for calls that share the options  *)
(* slice of their caller.  A slice is [array, len, cap], array an index    *)
(* into the arrays allocated; a variadic call hands the callee the slice   *)
(* of the caller, with its backing array.                                  *)
(***************************************************************************)
MaxConcurrentCalls == 2

\* The slot of a backing array beyond the length of every slice made of it.
nilOpt == [name |-> "nil", a |-> <<>>, b |-> <<>>]

RECURSIVE nilOpts(_)
nilOpts(n) == IF n = 0 THEN <<>> ELSE <<nilOpt>> \o nilOpts(n - 1)

\* The elements of a slice.
sliceElems(arrays, sl) == SubSeq(arrays[sl.array], 1, sl.len)

\* append(sl, x) with spare capacity: x is written into the backing array.
appendInPlace(arrays, sl, x) ==
  [arrays |-> [arrays EXCEPT ![sl.array][sl.len + 1] = x],
   sl     |-> [sl EXCEPT !.len = @ + 1]]

\* append(sl, x) with no spare capacity: the elements are copied into a new
\* array of twice the capacity (of one slot for an empty slice).
appendGrown(arrays, sl, x) ==
  [arrays |-> Append(arrays,
                     sliceElems(arrays, sl) \o <<x>>
                       \o nilOpts(IF sl.cap = 0 THEN 0 ELSE sl.cap - 1)),
   sl     |-> [array |-> Len(arrays) + 1, len |-> sl.len + 1,
               cap |-> IF sl.cap = 0 THEN 1 ELSE 2 * sl.cap]]

\* append(sl, x)
goAppend(arrays, sl, x) ==
  IF sl.len < sl.cap THEN appendInPlace(arrays, sl, x) ELSE appendGrown(arrays, sl, x)

\* opts = append(opts, OptBuyMarketplace(marketplaceID))
wrapperAppend(arrays, opts, marketplaceID) ==
  goAppend(arrays, opts, [name |-> "OptBuyMarketplace", a |-> marketplaceID, b |-> <<>>])

\* s.client.NewRequest(method, u, body, opts...) of each wrapper.
wrapperRequest(c, fn, itemID, opts) ==
  CASE fn = "GetBidding" ->
         NewRequestBody(c, <<"G", "E", "T">>, getBiddingURL(itemID), <<>>, opts)
    [] fn = "PlaceProxyBid" ->
         NewRequestBody(c, <<"P", "O", "S", "T">>, placeProxyBidURL(itemID),
                        proxyBidPayload(<<"U", "S", "D">>, <<"1">>, FALSE), opts)
    [] OTHER ->
         NewRequestBody(c, <<"P", "O", "S", "T">>, checkCompatibilityURL(itemID),
                        compatibilityPayload(<<>>), opts)

\* The type of the value each wrapper decodes into.
wrapperT(fn) ==
  CASE fn = "GetBidding" -> ItemT
    [] fn = "PlaceProxyBid" -> ProxyBidT
    [] OTHER -> CompatibilityT

(***************************************************************************)
(* NewRequest and Do, statement by statement, for calls that share one     *)
(* Client.  The Client is an object [client, baseURL], baseURL an index    *)
(* into the URL objects allocated; a request refers to its URL object and  *)
(* to its header map the same way.                                         *)
(***************************************************************************)
\* The Client as NewRequest and Do read it.
clientRead(co, urls) ==
  [client |-> co.client, baseURL |-> IF co.baseURL = 0 THEN <<>> ELSE <<urls[co.baseURL]>>]

\* A request that keeps the URL object of the client as its own: C26 tells it
\* from requestURL.
requestURLShared(co, urls) == co.baseURL

\* http.NewRequest(method, u.String(), nil) parses the text it is given: the
\* URL of the request is a new object.
requestURL(co, urls) == Len(urls) + 1

\* The URL objects after u is stored in object id.
storeURL(urls, id, u) == IF id > Len(urls) THEN Append(urls, u) ELSE [urls EXCEPT ![id] = u]

\* The request of a call, read through its references.
requestAt(shell, urls, hdrs, url, hdr) ==
  [shell EXCEPT !.URL = urls[url], !.Header = hdrs[hdr]]

(***************************************************************************)
(* Authentication (oauth2.go).  An *oauth2.Token is <<>> (nil) or <<t>>,   *)
(* t a record [AccessToken, TokenType, RefreshToken, Expiry].              *)
(***************************************************************************)
\* Token that leaves the type alone when the source also returned an error:
\* C15 tells it from Token.
TokenUnlessError(base) ==
  [t |-> IF base.t # <<>> /\ base.err.kind = "nil"
         THEN <<[base.t[1] EXCEPT !.TokenType = "Bearer"]>>
         ELSE base.t,
   err |-> base.err,
   baseCalls |-> 1]

\* BearerTokenSource.Token: [t, err, baseCalls].  base is what the one call
\* ts.base.Token() returned.
Token(base) ==
  [t |-> IF base.t # <<>>
         THEN <<[base.t[1] EXCEPT !.TokenType = "Bearer"]>>
         ELSE base.t,
   err |-> base.err,
   baseCalls |-> 1]

(***************************************************************************)
(* Token, statement by statement, for calls that run concurrently.  A      *)
(* *oauth2.Token is an index into a heap of token objects.  The wrapped    *)
(* source is safe for concurrent use, so its call is one step.             *)
(***************************************************************************)
NumCallers == 2

Callers == 1..NumCallers

\* The wrapped sources: one that returns the same token object on every call
\* (oauth2.StaticTokenSource), one that caches the object and replaces it on
\* expiry (oauth2.ReuseTokenSource), one that allocates a token per call, and
\* one that fails.
BaseKinds == {"static", "reuse", "fresh", "failing"}

issuedToken(type) ==
  [AccessToken |-> "a1", TokenType |-> type, RefreshToken |-> "", Expiry |-> 1]

IssuedTypes == {"Application Access Token", "User Access Token"}

\* TokenSource(base): the adapter, with the heap and the cache of its source.
NewTokenSource(kind) ==
  [base |-> kind,
   heap |-> IF kind = "static" THEN <<issuedToken("Application Access Token")>> ELSE <<>>,
   cache |-> IF kind = "static" THEN <<1>> ELSE <<>>]

\* The source allocates a token, and caches it when it is a caching source.
baseIssues(kind, heap, type) ==
  [heap |-> Append(heap, issuedToken(type)),
   cache |-> IF kind = "reuse" THEN <<Len(heap) + 1>> ELSE <<>>,
   t |-> <<Len(heap) + 1>>,
   err |-> NilError]

\* The source returns the object it holds.
baseCached(heap, cache) == [heap |-> heap, cache |-> cache, t |-> cache, err |-> NilError]

\* ts.base.Token(): the outcomes of one call.
baseToken(kind, heap, cache) ==
  CASE kind = "static" -> {baseCached(heap, cache)}
    [] kind = "reuse" ->
         {baseIssues(kind, heap, type) : type \in IssuedTypes}
           \cup (IF cache = <<>> THEN {} ELSE {baseCached(heap, cache)})
    [] kind = "fresh" -> {baseIssues(kind, heap, type) : type \in IssuedTypes}
    [] OTHER -> {[heap |-> heap, cache |-> cache, t |-> <<>>, err |-> NewError("oauth2")]}

\* t.TokenType = "Bearer", through the pointer.
writeTokenType(heap, t) == [heap EXCEPT ![t[1]].TokenType = "Bearer"]

\* What a read of a string field gives while another goroutine writes it: the
\* value before, the value written, or a mix of the two string headers.
racyRead(old, new) == IF old = new THEN {old} ELSE {old, new, "torn"}

(***************************************************************************)
(* Inputs.                                                                 *)
(***************************************************************************)
\* All sequences over S of length at most n.
RECURSIVE SeqsUpTo(_, _)
SeqsUpTo(S, n) ==
  IF n = 0 THEN {<<>>}
  ELSE LET shorter == SeqsUpTo(S, n - 1)
       IN  shorter \cup {Append(q, x) : q \in {t \in shorter : Len(t) = n - 1}, x \in S}

\* The *http.Client handed to a constructor: nil or the caller's own.
HTTPClients == {"nil", "tc"}

\* Base URLs handed to NewCustomClient: with and without the trailing slash,
\* with a directory, with a query that ends in a slash, relative, and one
\* that url.Parse refuses.
CustomBases ==
  {<<"h", "t", "t", "p", ":", "/", "/", "h", "/">>,
   <<"h", "t", "t", "p", ":", "/", "/", "h", "/", "v", "/">>,
   <<"h", "t", "t", "p", ":", "/", "/", "h">>,
   <<"h", "t", "t", "p", ":", "/", "/", "h", "/", "v", "?", "/">>,
   <<"h", "/">>,
   <<":", "/">>}

GET == <<"G", "E", "T">>

POST == <<"P", "O", "S", "T">>

\* Methods handed to NewRequest in SpecBuild: a valid one, the empty one (GET),
\* and one that is not a token.
Methods == {POST, <<>>, <<"G", " ">>}

\* The characters of the relative paths handed to NewRequest.
PathChars == {"a", "/", ".", ":", "?", "#", "%", " "}

Paths == SeqsUpTo(PathChars, MaxPathLen)

\* The paths of the resource wrappers, shortened.
WrapperPaths == {<<"b", "u", "y">>, <<"b", "/", "1">>}

US == <<"U", "S">>

GB == <<"G", "B">>

\* The option values handed to NewRequest.
Opts ==
  {[name |-> "OptBuyMarketplace", a |-> m, b |-> <<>>] : m \in {US, GB}}
  \cup {[name |-> "OptBrowseContextualLocation", a |-> cz[1], b |-> cz[2]] :
          cz \in {<<US, <<"1">>>>, <<GB, <<"2">>>>}}

OptLists == SeqsUpTo(Opts, MaxOpts)

\* The arguments of the NewRequest calls of SpecBuild: every method with every
\* path and no option, and with every path that starts with a slash and at
\* most one option.
BuildInputs ==
  (Methods \X Paths \X {<<>>})
  \cup (Methods \X {p \in Paths : HasPrefix(p, <<"/">>)} \X SeqsUpTo(Opts, 1))

\* The arguments of the NewRequest calls of SpecOpts: every option list.
OptsInputs == {GET, POST} \X (WrapperPaths \cup {<<"/">>}) \X OptLists

\* The arguments of the NewRequest calls of Spec: the call of a wrapper, and
\* one that fails.
DoInputs ==
  {<<POST, <<"b", "/", "1">>, <<[name |-> "OptBuyMarketplace", a |-> US, b |-> <<>>]>>>>,
   <<GET, <<"/", "b">>, <<>>>>}

\* The base URLs handed to NewCustomClient in Spec.
DoBases == {<<"h", "t", "t", "p", ":", "/", "/", "h", "/">>, <<"h", "t", "t", "p", ":", "/", "/", "h">>}

\* Error identifiers of the Offer API (offer.go).
ErrGetBiddingMarketplaceNotSupported == 120017

ErrGetBiddingNoBiddingActivity == 120033

\* The records of the "errors" arrays: one with every field and a key that
\* ErrorData does not have, one with the identifier alone.
ErrorRecords ==
  {JObj(<<KV("errorId", JNum(ErrGetBiddingNoBiddingActivity)),
          KV("domain", JStr(<<"d">>)),
          KV("subDomain", JStr(<<"s">>)),
          KV("category", JStr(<<"c">>)),
          KV("message", JStr(<<"m">>)),
          KV("longMessage", JStr(<<"l", "m">>)),
          KV("inputRefIds", JArr(<<JStr(<<"i">>), JStr(<<"j">>)>>)),
          KV("outputRefIds", JArr(<<JStr(<<"o">>)>>)),
          KV("parameters",
             JArr(<<JObj(<<KV("name", JStr(<<"n">>)), KV("value", JStr(<<"v">>))>>),
                    JObj(<<KV("value", JStr(<<"w">>))>>)>>)),
          KV("extra", JBool)>>),
   JObj(<<KV("errorId", JNum(ErrGetBiddingMarketplaceNotSupported))>>)}

\* Bodies that are a well-formed error payload: an object with an "errors"
\* array of records.
ErrorBodies ==
  {JSONBody(JObj(<<KV("errors", JArr(a))>>)) : a \in SeqsUpTo(ErrorRecords, MaxErrors)}

\* Bodies that are empty, not JSON, or JSON of another shape.
MalformedBodies ==
  {EmptyBody, GarbageBody,
   JSONBody(JNull),
   JSONBody(JArr(<<>>)),
   JSONBody(JStr(<<"x">>)),
   JSONBody(JObj(<<>>)),
   JSONBody(JObj(<<KV("errors", JNull)>>)),
   JSONBody(JObj(<<KV("errors", JStr(<<"x">>))>>)),
   JSONBody(JObj(<<KV("errors", JObj(<<KV("errorId", JNum(1))>>))>>)),
   JSONBody(JObj(<<KV("errors", JArr(<<JNum(1), JNum(2)>>))>>)),
   JSONBody(JObj(<<KV("errors", JArr(<<JObj(<<KV("errorId", JStr(<<"x">>))>>)>>))>>)),
   JSONBody(JObj(<<KV("message", JStr(<<"m">>))>>)),
   JSONBody(JObj(<<KV("Response", JObj(<<KV("StatusCode", JNum(200))>>))>>)),
   JSONBody(JObj(<<KV("Response", JNull)>>)),
   JSONBody(JObj(<<KV("RequestDump", JStr(<<"x">>))>>))}

\* Bodies of a successful PlaceProxyBid: the identifier, the identifier under
\* a key in capitals, and an identifier that is a number.
ProxyBidBodies ==
  {JSONBody(JObj(<<KV("proxyBidId", JStr(<<"1">>))>>)),
   JSONBody(JObj(<<KV("ProxyBidID", JStr(<<"2">>)), KV("extra", JNum(1))>>)),
   JSONBody(JObj(<<KV("proxyBidId", JNum(5))>>))}

\* A body with bytes that are no JSON after the JSON text of a ProxyBid.
TrailingBodies == {TrailingBody(JObj(<<KV("proxyBidId", JStr(<<"3">>))>>))}

Bodies == ErrorBodies \cup MalformedBodies \cup ProxyBidBodies \cup TrailingBodies

\* The status codes of the responses: the ends of 200..299, their neighbours,
\* a 1xx and a 4xx.
Statuses == {100, 199, 200, 299, 300, 404}

\* What c.client.Do returns: an error, or a response.
Sends ==
  {[err |-> NewError("transport"), resp |-> <<>>]}
  \cup {[err |-> NilError,
         resp |-> <<[StatusCode |-> st, Body |-> body, Closed |-> FALSE]>>] :
          st \in Statuses, body \in Bodies}

\* The destinations handed to Do: nil, a fresh ProxyBid, one that holds a value.
Dests ==
  {<<>>,
   <<[T |-> ProxyBidT, val |-> [ProxyBidID |-> <<>>]]>>,
   <<[T |-> ProxyBidT, val |-> [ProxyBidID |-> <<"0">>]]>>}

\* The code lists handed to IsError.
Codes == {ErrGetBiddingMarketplaceNotSupported, ErrGetBiddingNoBiddingActivity, 0}

CodeLists == SeqsUpTo(Codes, MaxCodes)

\* The token types a source reports: the two of the eBay token endpoint, the
\* one the API needs, and none.
TokenTypes == {"Application Access Token", "User Access Token", "Bearer", ""}

\* The tokens a source returns.
Tokens ==
  [AccessToken : {"a1", "a2"}, TokenType : TokenTypes, RefreshToken : {"", "r1"},
   Expiry : {0, 1}]

\* What ts.base.Token() returns: a token or nil, with an error or nil.
BaseResults ==
  [t : {<<>>} \cup {<<t>> : t \in Tokens}, err : {NilError, NewError("oauth2")}]

\* A struct with a field the encoder has no encoding for, left out when nil.
OptionalChanT ==
  StructT(<<TaggedField("Total", "total", IntT, TRUE),
            TaggedField("Done", "done", PtrT(ChanT), TRUE)>>)

USD == <<"U", "S", "D">>

\* The amounts of a bid: a decimal number, and a text that needs escaping.
Amounts == {<<"1", ".", "2">>, <<"\"", "<">>}

\* The item identifiers: of the legacy API and of the RESTful one.
ItemIDs == {<<"1">>, <<"v", "1", "|", "2", "|", "0">>}

\* The body values handed to NewRequest: none, the payload of PlaceProxyBid,
\* the payload of CheckCompatibility, and values with a channel: nil (left
\* out by omitempty) and not nil (which the encoder refuses).
BodyValues ==
  {<<>>}
  \cup {proxyBidPayload(USD, a, f) : a \in Amounts, f \in BOOLEAN}
  \cup {<<[T   |-> PtrT(CompatibilityPayloadT),
           val |-> <<[CompatibilityProperties |->
                        <<[Name |-> <<"0">>, Value |-> <<"1">>],
                          [Name |-> <<"2">>, Value |-> <<"3">>]>>]>>]>>}
  \cup {<<[T |-> PtrT(OptionalChanT), val |-> <<[Total |-> n, Done |-> d]>>]>> :
          n \in {0, 12}, d \in {<<>>, <<"ch">>}}

\* The arguments of the NewRequest calls of SpecBody.
BodyInputs ==
  {POST, <<"G", " ">>}
  \X (WrapperPaths \cup {<<"/", "b">>, <<"%">>})
  \X BodyValues
  \X SeqsUpTo(Opts, 1)

\* The arguments of the PlaceProxyBid calls of SpecBody.
BidInputs ==
  [itemID : ItemIDs, marketplaceID : {US, GB}, maxAmount : Amounts, currency : {USD},
   userConsentAdultOnlyItem : BOOLEAN,
   opts : {<<>>, <<[name |-> "OptBuyMarketplace", a |-> US, b |-> <<>>]>>}]

\* What the transport returns to PlaceProxyBid: an error, a bid, an error
\* payload, a body that is no JSON.
BidSends ==
  {s \in Sends :
     \/ s.resp = <<>>
     \/ /\ s.resp[1].StatusCode \in {200, 404}
        /\ s.resp[1].Body \in
             {JSONBody(JObj(<<KV("proxyBidId", JStr(<<"1">>))>>)), GarbageBody,
              JSONBody(JObj(<<KV("errors", JArr(<<>>))>>))}}

\* The arguments of the GetBidding and CheckCompatibility calls of SpecBody:
\* no option, the marketplace option with another marketplace, a location.
WrapperOpts ==
  {<<>>,
   <<[name |-> "OptBuyMarketplace", a |-> US, b |-> <<>>]>>,
   <<[name |-> "OptBrowseContextualLocation", a |-> GB, b |-> <<"2">>]>>}

\* What the transport returns to a wrapper of SpecSharedOptions.
WrapperSends ==
  {s \in BidSends :
     \/ s.resp = <<>>
     \/ /\ s.resp[1].StatusCode = 200
        /\ s.resp[1].Body = JSONBody(JObj(<<KV("proxyBidId", JStr(<<"1">>))>>))}

\* The NewRequest calls made on a shared Client: with no option, with an
\* option that rewrites the query of the URL, with a header option and a
\* query option, and with a URL that is refused.
SharedInputs ==
  {<<GET, <<"b">>, <<>>>>,
   <<GET, <<"b", "?", "q", "=", "y">>, <<[name |-> "OptBrowseSearch", a |-> <<"x">>, b |-> <<>>]>>>>,
   <<POST, <<"c">>,
     <<[name |-> "OptBuyMarketplace", a |-> US, b |-> <<>>],
       [name |-> "OptBrowseSearchSort", a |-> <<"p">>, b |-> <<>>]>>>>,
   <<GET, <<"/", "b">>, <<>>>>}

GetBiddingInputs == [itemID : ItemIDs, marketplaceID : {US, GB}, opts : WrapperOpts]

CompatibilityInputs ==
  [itemID : ItemIDs, marketplaceID : {US, GB},
   properties : {<<>>, <<[Name |-> <<"0">>, Value |-> <<"1">>]>>},
   opts : WrapperOpts]

\* The options that optSearch makes, as handed to NewRequest: a search text,
\* one that needs escaping, a sort order, a limit.
QueryOpts ==
  {[name |-> "OptBrowseSearch", a |-> q, b |-> <<>>] : q \in {<<"x">>, <<"a", " ", "b">>}}
  \cup {[name |-> "OptBrowseSearchSort", a |-> <<"p">>, b |-> <<>>]}
  \cup {[name |-> "OptBrowseSearchLimit", a |-> <<>>, b |-> <<>>, n |-> 12]}

\* The relative URLs of SpecQuery: with no query, with the key of an option,
\* with other keys out of order, with a key twice, with a part that is no
\* pair.
QueryPaths ==
  {<<"b">>,
   <<"b", "?", "q", "=", "y">>,
   <<"b", "?", "z", "=", "1", "&", "a", "=", "2">>,
   <<"b", "?", "q", "=", "y", "&", "q", "=", "x">>,
   <<"b", "?", "a", ";", "c", "&", "z">>}

\* The arguments of the NewRequest calls of SpecQuery.
QueryInputs ==
  {GET} \X QueryPaths
  \X SeqsUpTo(QueryOpts \cup {[name |-> "OptBuyMarketplace", a |-> m, b |-> <<>>] :
                                m \in {US, GB}},
              MaxOpts)

\* The contexts handed to Do.
Contexts == {"live", "canceled", "deadlineExceeded"}

\* What the server sends, or the transport's own failure, in SpecSend: a bid,
\* an empty success, an error payload.
Serves ==
  {s \in Sends :
     \/ s.resp = <<>>
     \/ /\ s.resp[1].StatusCode \in {200, 404}
        /\ s.resp[1].Body \in
             {JSONBody(JObj(<<KV("proxyBidId", JStr(<<"1">>))>>)), EmptyBody}}

\* The destinations handed to Do in SpecSend.
SendDests == {<<>>, <<[T |-> ProxyBidT, val |-> [ProxyBidID |-> <<"0">>]]>>}

(***************************************************************************)
(* State.  The caller is the program every resource wrapper is: it         *)
(* constructs a client, builds one request with it, sends it and inspects  *)
(* the error.  pc is its position.                                         *)
(***************************************************************************)
VARIABLES
  pc,         \* "start", "constructed", "built", "done", "checked"
  client,     \* the *Client the constructor returned (<<>>: nil)
  clientErr,  \* the error the constructor returned
  ctor,       \* the constructor call made: its name and arguments
  req,        \* the *http.Request NewRequest returned (<<>>: nil)
  reqErr,     \* the error NewRequest returned
  reqLog,     \* the option calls NewRequest made, in order
  nr,         \* the NewRequest call: its arguments, and how it ended
  do,         \* the Do call: what the transport returned, and the destination
  resp,       \* the response after Do (<<>>: none)
  v,          \* the destination after Do (<<>>: nil)
  err,        \* the error Do returned
  ie,         \* the IsError call: the error, the codes and the result
  em,         \* the err.Error() call: how it ended, and the message
  tok,        \* the BearerTokenSource: the calls made, and what the last returned
  wr,         \* the call with a payload: its arguments, and what it returned
  wire,       \* the transport: each dispatch it received, and what each Do returned
  tkc,        \* the concurrent Token calls: the adapter, the heap, each goroutine
  slc,        \* the concurrent wrapper calls: the arrays, the caller's slice, each goroutine
  shr         \* the calls on one shared Client: the objects, each goroutine

vars ==
  <<pc, client, clientErr, ctor, req, reqErr, reqLog, nr, do, resp, v, err, ie, em, tok,
    wr, wire, tkc, slc, shr>>

Init ==
  /\ pc = "start"
  /\ client = <<>>
  /\ clientErr = NilError
  /\ ctor = [fn |-> "none", httpclient |-> "nil", base |-> <<>>]
  /\ req = <<>>
  /\ reqErr = NilError
  /\ reqLog = <<>>
  /\ nr = [state |-> "none", method |-> <<>>, url |-> <<>>, opts |-> <<>>]
  /\ do = [state |-> "none", sent |-> [err |-> NilError, resp |-> <<>>], v |-> <<>>,
           calls |-> <<>>]
  /\ resp = <<>>
  /\ v = <<>>
  /\ err = NilError
  /\ ie = [state |-> "none", err |-> NilError, codes |-> <<>>, result |-> FALSE]
  /\ em = [state |-> "none", msg |-> <<>>]
  /\ tok = [invocations |-> 0, baseCalls |-> 0, base |-> [t |-> <<>>, err |-> NilError],
            t |-> <<>>, err |-> NilError]
  /\ wr = [state |-> "none", fn |-> "none", method |-> <<>>, url |-> <<>>, body |-> <<>>,
           opts |-> <<>>, args |-> <<>>, sent |-> <<>>, req |-> <<>>, err |-> NilError,
           p |-> <<>>, resp |-> <<>>, log |-> <<>>]
  /\ wire = [calls |-> 0, log |-> <<>>, results |-> <<>>]
  /\ tkc = [base |-> "none", heap |-> <<>>, cache |-> <<>>, calls |-> 0,
            g |-> [i \in Callers |->
                     [pc |-> "idle", t |-> <<>>, err |-> NilError, seen |-> <<>>]]]
  /\ slc = [state |-> "none", calls |-> 0, arrays |-> <<>>, made |-> <<>>,
            shared |-> [array |-> 0, len |-> 0, cap |-> 0],
            g |-> [i \in Callers |->
                     [pc |-> "idle", fn |-> "none", marketplaceID |-> <<>>,
                      opts |-> [array |-> 0, len |-> 0, cap |-> 0],
                      r |-> NoRequest(NilError, FALSE), err |-> NilError]]]
  /\ shr = [state |-> "none", calls |-> 0, made |-> <<>>,
            client |-> [client |-> "nil", baseURL |-> 0], urls |-> <<>>, hdrs |-> <<>>,
            g |-> [i \in Callers |->
                     [pc |-> "idle", in |-> <<>>, left |-> <<>>, shell |-> <<>>,
                      url |-> 0, hdr |-> 0, err |-> NilError, panicked |-> FALSE,
                      sent |-> <<>>, out |-> <<>>]]]

clientVars == <<client, clientErr, ctor>>

requestVars == <<req, reqErr, reqLog, nr>>

doVars == <<do, resp, v, err>>

\* The state of the specifications of their own.
concVars == <<tkc, slc, shr>>

sideVars == <<wire, concVars>>

mainVars == <<pc, clientVars, requestVars, doVars, ie, em, tok, wr, wire>>

tokenVars == <<mainVars, slc, shr>>

sliceVars == <<mainVars, tkc, shr>>

sharedVars == <<mainVars, tkc, slc>>

afterVars == <<ie, em, tok, wr, sideVars>>

(***************************************************************************)
(* Actions: one per exported function.  A constructor that returned no     *)
(* client leaves the caller at "start".                                    *)
(***************************************************************************)
CallNewClient ==
  /\ pc = "start"
  /\ \E h \in HTTPClients :
       /\ client' = NewClient(h).c
       /\ clientErr' = NewClient(h).err
       /\ ctor' = [fn |-> "NewClient", httpclient |-> h, base |-> baseURL]
  /\ pc' = "constructed"
  /\ UNCHANGED <<requestVars, doVars, afterVars>>

CallNewSandboxClient ==
  /\ pc = "start"
  /\ \E h \in HTTPClients :
       /\ client' = NewSandboxClient(h).c
       /\ clientErr' = NewSandboxClient(h).err
       /\ ctor' = [fn |-> "NewSandboxClient", httpclient |-> h, base |-> sandboxBaseURL]
  /\ pc' = "constructed"
  /\ UNCHANGED <<requestVars, doVars, afterVars>>

CallNewCustomClient(bases) ==
  /\ pc = "start"
  /\ \E h \in HTTPClients, b \in bases :
       \E r \in {NewCustomClient(h, b)} :
         /\ client' = r.c
         /\ clientErr' = r.err
         /\ ctor' = [fn |-> "NewCustomClient", httpclient |-> h, base |-> b]
         /\ pc' = IF r.c = <<>> THEN "start" ELSE "constructed"
  /\ UNCHANGED <<requestVars, doVars, afterVars>>

\* c.NewRequest(method, url, opts...) with the arguments drawn from the set
\* given.  A call that panics returns nothing.
CallNewRequest(inputs) ==
  /\ pc = "constructed"
  /\ \E in \in inputs :
       \E r \in {NewRequest(client[1], in[1], in[2], in[3])} :
         /\ nr' = [state  |-> IF r.panicked THEN "panicked" ELSE "returned",
                   method |-> in[1], url |-> in[2], opts |-> in[3]]
         /\ req' = r.req
         /\ reqErr' = r.err
         /\ reqLog' = r.log
  /\ pc' = "built"
  /\ UNCHANGED <<clientVars, doVars, afterVars>>

\* c.Do(ctx, req, v) with the request NewRequest returned.
CallDo ==
  /\ pc = "built"
  /\ req # <<>>
  /\ \E sent \in Sends, v0 \in Dests :
       \E r \in {Do(client[1], sent, req[1], v0)} :
         /\ do' = [state |-> "returned", sent |-> sent, v |-> v0, calls |-> r.calls]
         /\ resp' = r.resp
         /\ v' = r.v
         /\ err' = r.err
  /\ pc' = "done"
  /\ UNCHANGED <<clientVars, requestVars, afterVars>>

\* IsError(err, codes...) on the error of Do, or on the error of a NewRequest
\* that returned no request.
CallIsError ==
  /\ \/ pc = "done"
     \/ pc = "built" /\ req = <<>> /\ nr.state = "returned"
  /\ \E codes \in CodeLists :
       \E e \in {IF pc = "done" THEN err ELSE reqErr} :
         ie' = [state |-> "returned", err |-> e, codes |-> codes,
                result |-> IsError(e, codes)]
  /\ pc' = "checked"
  /\ UNCHANGED <<clientVars, requestVars, doVars, em, tok, wr, sideVars>>

\* err.Error() on the *ErrorData that Do returned.
CallError ==
  /\ pc = "done"
  /\ err.kind = "ErrorData"
  /\ \E r \in {ErrorString(err.data)} :
       em' = [state |-> IF r.panicked THEN "panicked" ELSE "returned", msg |-> r.msg]
  /\ pc' = "checked"
  /\ UNCHANGED <<clientVars, requestVars, doVars, ie, tok, wr, sideVars>>

\* ts.Token() on a BearerTokenSource whose wrapped source returns any of the
\* results given.
CallToken ==
  /\ tok.invocations < MaxTokenCalls
  /\ \E b \in BaseResults :
       \E r \in {Token(b)} :
         tok' = [invocations |-> tok.invocations + 1,
                 baseCalls   |-> tok.baseCalls + r.baseCalls,
                 base        |-> b,
                 t           |-> r.t,
                 err         |-> r.err]
  /\ UNCHANGED <<pc, clientVars, requestVars, doVars, ie, em, wr, sideVars>>

\* c.NewRequest(method, url, body, opts...) with the arguments drawn from
\* BodyInputs.  A call that panics returns nothing.
CallNewRequestBody ==
  /\ pc = "constructed"
  /\ \E in \in BodyInputs :
       \E r \in {NewRequestBody(client[1], in[1], in[2], in[3], in[4])} :
         wr' = [state |-> IF r.panicked THEN "panicked" ELSE "returned",
                fn |-> "NewRequest", method |-> in[1], url |-> in[2], body |-> in[3],
                opts |-> in[4], args |-> <<>>, sent |-> <<>>, req |-> r.req,
                err |-> r.err, p |-> <<>>, resp |-> <<>>, log |-> r.log]
  /\ pc' = "built"
  /\ UNCHANGED <<clientVars, requestVars, doVars, ie, em, tok, sideVars>>

\* client.Buy.Offer.PlaceProxyBid(ctx, ...) with the arguments drawn from
\* BidInputs and the transport returning any of BidSends.  req is the
\* request the call built and sent.
CallPlaceProxyBid ==
  /\ pc = "constructed"
  /\ \E a \in BidInputs, sent \in BidSends :
       \E r \in {PlaceProxyBid(client[1], sent, a.itemID, a.marketplaceID, a.maxAmount,
                               a.currency, a.userConsentAdultOnlyItem, a.opts)} :
         wr' = [state |-> IF r.panicked THEN "panicked" ELSE "returned",
                fn |-> "PlaceProxyBid", method |-> POST,
                url |-> placeProxyBidURL(a.itemID),
                body |-> proxyBidPayload(a.currency, a.maxAmount,
                                         a.userConsentAdultOnlyItem),
                opts |-> a.opts, args |-> <<a>>, sent |-> <<sent>>, req |-> r.req,
                err |-> r.err, p |-> <<r.p>>, resp |-> r.resp, log |-> <<>>]
  /\ pc' = "done"
  /\ UNCHANGED <<clientVars, requestVars, doVars, ie, em, tok, sideVars>>

\* client.Buy.Offer.GetBidding(ctx, ...) with the arguments drawn from
\* GetBiddingInputs and the transport returning any of BidSends.
CallGetBidding ==
  /\ pc = "constructed"
  /\ \E a \in GetBiddingInputs, sent \in BidSends :
       \E r \in {GetBidding(client[1], sent, a.itemID, a.marketplaceID, a.opts)} :
         wr' = [state |-> IF r.panicked THEN "panicked" ELSE "returned",
                fn |-> "GetBidding", method |-> GET, url |-> getBiddingURL(a.itemID),
                body |-> <<>>, opts |-> a.opts, args |-> <<a>>, sent |-> <<sent>>,
                req |-> r.req, err |-> r.err, p |-> <<r.p>>, resp |-> r.resp,
                log |-> <<>>]
  /\ pc' = "done"
  /\ UNCHANGED <<clientVars, requestVars, doVars, ie, em, tok, sideVars>>

\* client.Buy.Browse.CheckCompatibility(ctx, ...) with the arguments drawn
\* from CompatibilityInputs and the transport returning any of BidSends.
CallCheckCompatibility ==
  /\ pc = "constructed"
  /\ \E a \in CompatibilityInputs, sent \in BidSends :
       \E r \in {CheckCompatibility(client[1], sent, a.itemID, a.marketplaceID,
                                    a.properties, a.opts)} :
         wr' = [state |-> IF r.panicked THEN "panicked" ELSE "returned",
                fn |-> "CheckCompatibility", method |-> POST,
                url |-> checkCompatibilityURL(a.itemID),
                body |-> compatibilityPayload(a.properties), opts |-> a.opts,
                args |-> <<a>>, sent |-> <<sent>>, req |-> r.req, err |-> r.err,
                p |-> <<r.p>>, resp |-> r.resp, log |-> <<>>]
  /\ pc' = "done"
  /\ UNCHANGED <<clientVars, requestVars, doVars, ie, em, tok, sideVars>>

\* The dispatches of one Do call, as the transport logs them.
RECURSIVE dispatches(_, _, _, _)
dispatches(calls, n, ctx, served) ==
  IF Len(calls) = 0 THEN <<>>
  ELSE (IF calls[1] = "client.Do"
        THEN <<[call |-> n, ctx |-> ctx, served |-> served]>> ELSE <<>>)
       \o dispatches(Tail(calls), n, ctx, served)

\* c.Do(ctx, req, v) with the request NewRequest returned, a context and what
\* the server sends; the caller may call again with the same request.
CallDoContext ==
  /\ pc \in {"built", "done"}
  /\ req # <<>>
  /\ wire.calls < MaxDoCalls
  /\ \E ctx \in Contexts, served \in Serves, v0 \in SendDests :
       \E r \in {DoContext(client[1], ctx, served, req[1], v0)} :
         /\ do' = [state |-> "returned", sent |-> clientDo(WithContext(req[1], ctx), served),
                   v |-> v0, calls |-> r.calls]
         /\ resp' = r.resp
         /\ v' = r.v
         /\ err' = r.err
         /\ wire' = [calls   |-> wire.calls + 1,
                     log     |-> wire.log \o dispatches(r.calls, wire.calls + 1, ctx, served),
                     results |-> Append(wire.results, [err |-> r.err, resp |-> r.resp])]
  /\ pc' = "done"
  /\ UNCHANGED <<clientVars, requestVars, ie, em, tok, wr, concVars>>

(***************************************************************************)
(* SpecBuild: construction and request building over every path.           *)
(***************************************************************************)
NextBuild ==
  \/ CallNewClient
  \/ CallNewSandboxClient
  \/ CallNewCustomClient(CustomBases)
  \/ CallNewRequest(BuildInputs)

SpecBuild == Init /\ [][NextBuild]_vars

(***************************************************************************)
(* SpecOpts: request building over every option list.                      *)
(***************************************************************************)
NextOpts ==
  \/ CallNewClient
  \/ CallNewSandboxClient
  \/ CallNewCustomClient(CustomBases)
  \/ CallNewRequest(OptsInputs)

SpecOpts == Init /\ [][NextOpts]_vars

(***************************************************************************)
(* Spec: the whole call of a wrapper: construct, build, send, inspect.     *)
(***************************************************************************)
Next ==
  \/ CallNewClient
  \/ CallNewSandboxClient
  \/ CallNewCustomClient(DoBases)
  \/ CallNewRequest(DoInputs)
  \/ CallDo
  \/ CallIsError
  \/ CallError

Spec == Init /\ [][Next]_vars

(***************************************************************************)
(* SpecBody: the calls that send a payload.                                *)
(***************************************************************************)
NextBody ==
  \/ CallNewClient
  \/ CallNewSandboxClient
  \/ CallNewCustomClient(DoBases)
  \/ CallNewRequestBody
  \/ CallPlaceProxyBid
  \/ CallGetBidding
  \/ CallCheckCompatibility

SpecBody == Init /\ [][NextBody]_vars

(***************************************************************************)
(* SpecQuery: request building with the options that set a query key.      *)
(***************************************************************************)
NextQuery ==
  \/ CallNewClient
  \/ CallNewSandboxClient
  \/ CallNewCustomClient(DoBases)
  \/ CallNewRequest(QueryInputs)

SpecQuery == Init /\ [][NextQuery]_vars

(***************************************************************************)
(* SpecSend: the Do calls of one caller, with their contexts.              *)
(***************************************************************************)
NextSend ==
  \/ CallNewClient
  \/ CallNewSandboxClient
  \/ CallNewCustomClient(DoBases)
  \/ CallNewRequest(DoInputs)
  \/ CallDoContext

SpecSend == Init /\ [][NextSend]_vars

(***************************************************************************)
(* SpecToken: the token source.                                            *)
(***************************************************************************)
NextToken == CallToken

SpecToken == Init /\ [][NextToken]_vars

(***************************************************************************)
(* Token calls that run concurrently on one adapter: a goroutine is at     *)
(* "idle", "write" (before line 33), "return" (before line 35) or          *)
(* "returned" (the caller holds the token and has not read it yet).        *)
(***************************************************************************)
\* ebay.TokenSource(base), for each kind of wrapped source.
CallTokenSource ==
  /\ tkc.base = "none"
  /\ \E kind \in BaseKinds :
       \E ts \in {NewTokenSource(kind)} :
         tkc' = [tkc EXCEPT !.base = ts.base, !.heap = ts.heap, !.cache = ts.cache]
  /\ UNCHANGED tokenVars

\* Lines 31-32: t, err := ts.base.Token(), and the test of t.
TokenCallBase(i) ==
  /\ tkc.base # "none"
  /\ tkc.g[i].pc = "idle"
  /\ tkc.calls < MaxTokenCalls
  /\ \E b \in baseToken(tkc.base, tkc.heap, tkc.cache) :
       tkc' = [tkc EXCEPT !.heap = b.heap, !.cache = b.cache, !.calls = @ + 1,
                          !.g[i] = [pc |-> IF b.t # <<>> THEN "write" ELSE "return",
                                    t |-> b.t, err |-> b.err, seen |-> <<>>]]
  /\ UNCHANGED tokenVars

\* Line 33: t.TokenType = "Bearer".
TokenWrite(i) ==
  /\ tkc.g[i].pc = "write"
  /\ tkc' = [tkc EXCEPT !.heap = writeTokenType(tkc.heap, tkc.g[i].t),
                        !.g[i].pc = "return"]
  /\ UNCHANGED tokenVars

\* Line 35: return t, err.
TokenReturn(i) ==
  /\ tkc.g[i].pc = "return"
  /\ tkc' = [tkc EXCEPT !.g[i].pc = "returned"]
  /\ UNCHANGED tokenVars

\* Another goroutine is about to write the token object that i holds.
WrittenByAnother(i) ==
  \E j \in Callers \ {i} : tkc.g[j].pc = "write" /\ tkc.g[j].t = tkc.g[i].t

\* The caller reads the type of the token it received, as the transport does
\* to set the Authorization header.
CallerReads(i) ==
  /\ tkc.g[i].pc = "returned"
  /\ \E type \in (IF tkc.g[i].t = <<>> THEN {"none"}
                   ELSE IF WrittenByAnother(i)
                   THEN racyRead(tkc.heap[tkc.g[i].t[1]].TokenType, "Bearer")
                   ELSE {tkc.heap[tkc.g[i].t[1]].TokenType}) :
       tkc' = [tkc EXCEPT !.g[i].pc = "idle", !.g[i].seen = <<type>>]
  /\ UNCHANGED tokenVars

NextConcurrentToken ==
  \/ CallTokenSource
  \/ \E i \in Callers : TokenCallBase(i)
  \/ \E i \in Callers : TokenWrite(i)
  \/ \E i \in Callers : TokenReturn(i)
  \/ \E i \in Callers : CallerReads(i)

SpecConcurrentToken == Init /\ [][NextConcurrentToken]_vars

(***************************************************************************)
(* Wrapper calls that run concurrently with one options slice: a goroutine *)
(* is at "idle", "appended" (after the append), "built" (after NewRequest) *)
(* or "returned".                                                          *)
(***************************************************************************)
\* The client of the calls.
sharedClient == NewClient("h").c[1]

\* The caller makes its options slice, make([]Opt, len, cap) filled with the
\* options given: with no spare capacity, or with one spare slot.
CallerMakesOptions ==
  /\ slc.state = "none"
  /\ \E elems \in WrapperOpts, spare \in {0, 1} :
       slc' = [slc EXCEPT !.state = "made",
                          !.arrays = <<elems \o nilOpts(spare)>>,
                          !.made = elems \o nilOpts(spare),
                          !.shared = [array |-> 1, len |-> Len(elems),
                                      cap |-> Len(elems) + spare]]
  /\ UNCHANGED sliceVars

\* A wrapper is called with shared..., and runs up to its append.
WrapperAppend(i) ==
  /\ slc.state = "made"
  /\ slc.g[i].pc = "idle"
  /\ slc.calls < MaxConcurrentCalls
  /\ \E fn \in {"GetBidding", "PlaceProxyBid", "CheckCompatibility"},
        marketplaceID \in {US, GB} :
       \E a \in {wrapperAppend(slc.arrays, slc.shared, marketplaceID)} :
         slc' = [slc EXCEPT !.arrays = a.arrays,
                            !.calls = @ + 1,
                            !.g[i].pc = "appended",
                            !.g[i].fn = fn,
                            !.g[i].marketplaceID = marketplaceID,
                            !.g[i].opts = a.sl]
  /\ UNCHANGED sliceVars

\* s.client.NewRequest(..., opts...): the options are read from the slice.
WrapperNewRequest(i) ==
  /\ slc.g[i].pc = "appended"
  /\ slc' = [slc EXCEPT !.g[i].pc = "built",
                        !.g[i].r = wrapperRequest(sharedClient, slc.g[i].fn, <<"1">>,
                                                  sliceElems(slc.arrays, slc.g[i].opts))]
  /\ UNCHANGED sliceVars

\* s.client.Do(ctx, req, &it), and the return.
WrapperDo(i) ==
  /\ slc.g[i].pc = "built"
  /\ \E sent \in WrapperSends :
       slc' = [slc EXCEPT !.g[i].pc = "returned",
                          !.g[i].err = wrapperBuilt(sharedClient, sent, slc.g[i].r,
                                                    wrapperT(slc.g[i].fn)).err]
  /\ UNCHANGED sliceVars

NextSharedOptions ==
  \/ CallerMakesOptions
  \/ \E i \in Callers : WrapperAppend(i)
  \/ \E i \in Callers : WrapperNewRequest(i)
  \/ \E i \in Callers : WrapperDo(i)

SpecSharedOptions == Init /\ [][NextSharedOptions]_vars

(***************************************************************************)
(* NewRequest and Do calls that run concurrently on one Client: a          *)
(* goroutine is at "idle", "options" (in the loop of line 93), "built"     *)
(* (NewRequest returned) or "done" (Do returned).                          *)
(***************************************************************************)
\* A constructor returns the Client that the goroutines share.
CallSharedClient ==
  /\ shr.state = "none"
  /\ \E made \in {NewClient("h"), NewSandboxClient("h")} :
       shr' = [shr EXCEPT !.state = "constructed",
                          !.made = made.c,
                          !.client = [client |-> made.c[1].client, baseURL |-> 1],
                          !.urls = made.c[1].baseURL]
  /\ UNCHANGED sharedVars

\* NewRequest, lines 82-92: no request is made of a URL with a leading slash
\* or that does not parse; else the request is allocated, with its URL and
\* its header map.
SharedNewRequest(i) ==
  /\ shr.state = "constructed"
  /\ shr.g[i].pc = "idle"
  /\ shr.calls < MaxConcurrentCalls
  /\ \E in \in SharedInputs :
       \E r \in {NewRequest(clientRead(shr.client, shr.urls), in[1], in[2], <<>>)} :
         IF r.req = <<>>
         THEN shr' = [shr EXCEPT !.calls = @ + 1,
                                 !.g[i] = [@ EXCEPT !.pc = "built", !.in = in,
                                                    !.err = r.err,
                                                    !.panicked = r.panicked]]
         ELSE shr' = [shr EXCEPT
                        !.calls = @ + 1,
                        !.urls = storeURL(shr.urls, requestURL(shr.client, shr.urls),
                                          r.req[1].URL),
                        !.hdrs = Append(shr.hdrs, r.req[1].Header),
                        !.g[i] = [@ EXCEPT !.pc = "options", !.in = in, !.left = in[3],
                                           !.shell = r.req,
                                           !.url = requestURL(shr.client, shr.urls),
                                           !.hdr = Len(shr.hdrs) + 1]]
  /\ UNCHANGED sharedVars

\* Lines 93-95, one turn of the loop: opt(req) writes the header map and the
\* URL of the request.
SharedOption(i) ==
  /\ shr.g[i].pc = "options"
  /\ shr.g[i].left # <<>>
  /\ \E r \in {ApplyOpt(shr.g[i].left[1],
                        requestAt(shr.g[i].shell[1], shr.urls, shr.hdrs, shr.g[i].url,
                                  shr.g[i].hdr))} :
       shr' = [shr EXCEPT !.urls[shr.g[i].url] = r.URL,
                          !.hdrs[shr.g[i].hdr] = r.Header,
                          !.g[i].left = Tail(@)]
  /\ UNCHANGED sharedVars

\* Line 96: return req, nil.
SharedReturn(i) ==
  /\ shr.g[i].pc = "options"
  /\ shr.g[i].left = <<>>
  /\ shr' = [shr EXCEPT !.g[i].pc = "built"]
  /\ UNCHANGED sharedVars

\* c.Do(ctx, req, &p) on the request NewRequest returned.
SharedDo(i) ==
  /\ shr.g[i].pc = "built"
  /\ shr.g[i].shell # <<>>
  /\ \E sent \in WrapperSends :
       shr' = [shr EXCEPT
                 !.g[i].pc = "done",
                 !.g[i].sent = <<sent>>,
                 !.g[i].out =
                   <<Do(clientRead(shr.client, shr.urls), sent,
                        requestAt(shr.g[i].shell[1], shr.urls, shr.hdrs, shr.g[i].url,
                                  shr.g[i].hdr),
                        <<[T |-> ProxyBidT, val |-> Zero(ProxyBidT)]>>)>>]
  /\ UNCHANGED sharedVars

NextSharedClient ==
  \/ CallSharedClient
  \/ \E i \in Callers : SharedNewRequest(i)
  \/ \E i \in Callers : SharedOption(i)
  \/ \E i \in Callers : SharedReturn(i)
  \/ \E i \in Callers : SharedDo(i)

SpecSharedClient == Init /\ [][NextSharedClient]_vars

(***************************************************************************)
(* Request building: C1, C2 (SpecBuild).                                   *)
(***************************************************************************)
\* A NewRequest call was made.
Called == nr.state # "none"

\* C1: for every method, every option list and every path that starts with
\* "/", NewRequest returns a non-nil error and a nil request, and no option is
\* applied.
C1_LeadingSlashRefused ==
  (Called /\ HasPrefix(nr.url, <<"/">>))
    => /\ nr.state = "returned"
       /\ reqErr.kind # "nil"
       /\ req = <<>>
       /\ reqLog = <<>>

\* A call with a valid method, a path with a leading slash behind it and an
\* option was refused.
C1_Witness ==
  /\ nr.state = "returned"
  /\ nr.method = POST
  /\ Len(nr.url) > 1 /\ nr.url[1] = "/" /\ nr.url[2] = "a"
  /\ Len(nr.opts) = 1
  /\ reqErr.kind = "error" /\ req = <<>> /\ reqLog = <<>>

\* The request was returned with the URL that is the text of the base followed
\* by the text of the path, and with the scheme and the host of the base.
JoinedOnce ==
  /\ nr.state = "returned"
  /\ reqErr.kind = "nil"
  /\ req # <<>>
  /\ String(req[1].URL) = ctor.base \o nr.url
  /\ req[1].URL.Scheme = client[1].baseURL[1].Scheme
  /\ req[1].URL.Host = client[1].baseURL[1].Host

PathPart(p) == CutBefore(CutBefore(p, "#"), "?")

\* The characters of a plain path or base: the ones no escaping rewrites.
PlainChars == LowerLetters \cup UpperLetters \cup Digits \cup {"/", ".", ":", "?", "#", "-", "_", "~"}

\* A path the resolution leaves as it is: plain characters, no "." or ".."
\* segment and no colon in the first segment of its path part, and no
\* fragment that is empty or holds a "#".
PlainPath(p) ==
  /\ \A i \in 1..Len(p) : p[i] \in PlainChars
  /\ \A i \in 1..Len(Split(PathPart(p), "/")) :
       Split(PathPart(p), "/")[i] \notin {<<".">>, <<".", ".">>}
  /\ ~Contains(CutBefore(PathPart(p), "/"), ":")
  /\ Contains(p, "#") => (CutAfter(p, "#") # <<>> /\ ~Contains(CutAfter(p, "#"), "#"))

\* A base that is scheme://host/, with directories or none, and nothing else.
PlainBase(b) ==
  /\ HasSuffix(b, <<"/">>)
  /\ Contains(b, ":")
  /\ HasPrefix(CutAfter(b, ":"), <<"/", "/">>)
  /\ \A i \in 1..Len(b) : b[i] \in PlainChars \ {"?", "#"}
  /\ \A i \in 1..Len(Split(b, "/")) : Split(b, "/")[i] \notin {<<".">>, <<".", ".">>}
  /\ Len(CutBefore(SubSeq(CutAfter(b, ":"), 3, Len(CutAfter(b, ":"))), "/")) > 0

C3_BaseEndsWithSlash ==
  /\ ctor.fn = "NewClient" => ctor.base = baseURL
  /\ ctor.fn = "NewSandboxClient" => ctor.base = sandboxBaseURL
  /\ ctor.fn # "none" =>
       IF HasSuffix(ctor.base, <<"/">>)
       THEN /\ client # <<>>
            /\ clientErr.kind = "nil"
            /\ client[1].baseURL # <<>> => HasSuffix(String(client[1].baseURL[1]), <<"/">>)
       ELSE client = <<>> /\ clientErr.kind # "nil"

\* NewCustomClient refused a base with no trailing slash.
C3_Witness ==
  /\ ctor.fn = "NewCustomClient"
  /\ ctor.base = <<"h", "t", "t", "p", ":", "/", "/", "h">>
  /\ client = <<>>
  /\ clientErr.kind = "error"

(***************************************************************************)
(* Options: C4 (SpecOpts).                                                 *)
(***************************************************************************)
\* C4: NewRequest calls the options in the order given, each once; the first
\* receives the request as http.NewRequest made it, each later one the
\* request as the one before left it, and the request returned is the request
\* as the last one left it.
C4_OptionsInOrder ==
  (nr.state = "returned" /\ req # <<>>)
    => /\ Len(reqLog) = Len(nr.opts)
       /\ \A i \in 1..Len(reqLog) :
            /\ reqLog[i].opt = nr.opts[i]
            /\ reqLog[i].seen =
                 IF i = 1 THEN [req[1] EXCEPT !.Header = EmptyHeader]
                 ELSE ApplyOpt(nr.opts[i - 1], reqLog[i - 1].seen)
       /\ Len(nr.opts) = 0 => req[1].Header = EmptyHeader
       /\ Len(nr.opts) > 0 =>
            req[1] = ApplyOpt(nr.opts[Len(nr.opts)], reqLog[Len(reqLog)].seen)

\* Two location options were applied: the header holds the location of the
\* first, then the location of the second.
C4_Witness ==
  /\ nr.state = "returned" /\ req # <<>>
  /\ Len(nr.opts) = 2
  /\ nr.opts[1] = [name |-> "OptBrowseContextualLocation", a |-> US, b |-> <<"1">>]
  /\ nr.opts[2] = [name |-> "OptBrowseContextualLocation", a |-> GB, b |-> <<"2">>]
  /\ req[1].Header[headerEndUserCtx] =
       <<contextualLocationKey \o QueryEscape(countryZip(US, <<"1">>)) \o <<",">>
         \o contextualLocationKey \o QueryEscape(countryZip(GB, <<"2">>))>>

(***************************************************************************)
(* Dispatch: C5, C6 (Spec).                                                *)
(***************************************************************************)
\* Do was called and the transport returned a response.
Responded == do.state = "returned" /\ do.sent.err.kind = "nil"

\* The status code and the body of the response the transport returned.
SentStatus == do.sent.resp[1].StatusCode

SentBody == do.sent.resp[1].Body

Is2xx(st) == 200 <= st /\ st < 300

\* The body is a JSON object with a member proxyBidId that is a string: the
\* shape of ProxyBid.
IsProxyBidBody(body) ==
  /\ body.kind = "json"
  /\ body.val.t = "obj"
  /\ \E i \in 1..Len(body.val.a) :
       body.val.a[i].k = "proxyBidId" /\ body.val.a[i].v.t = "str"

\* The string of the member proxyBidId.
ProxyBidIDOf(body) ==
  (CHOOSE m \in {body.val.a[i] : i \in 1..Len(body.val.a)} : m.k = "proxyBidId").v.s

\* C5: when the transport returns a 2xx response whose body is JSON of the
\* shape of the destination, and the destination is not nil, Do returns nil
\* and the destination holds what the body holds.
C5_SuccessPopulatesDestination ==
  (Responded /\ Is2xx(SentStatus) /\ IsProxyBidBody(SentBody) /\ do.v # <<>>)
    => /\ err.kind = "nil"
       /\ v # <<>>
       /\ v[1].val.ProxyBidID = ProxyBidIDOf(SentBody)

\* A 299 response with an identifier was decoded over a destination that held
\* another one.
C5_Witness ==
  /\ Responded
  /\ SentStatus = 299
  /\ IsProxyBidBody(SentBody)
  /\ do.v # <<>> /\ do.v[1].val.ProxyBidID = <<"0">>
  /\ err.kind = "nil"
  /\ v[1].val.ProxyBidID = <<"1">>

\* C6: when the transport returns a response with a status outside 200..299,
\* Do returns the error CheckResponse returns for it, an *ErrorData, and the
\* destination is as it was.
C6_FailureLeavesDestination ==
  (Responded /\ ~Is2xx(SentStatus))
    => /\ err = CheckResponse(req[1], do.sent.resp[1]).err
       /\ err.kind = "ErrorData"
       /\ v = do.v

\* A 404 response whose body has the shape of the destination left the
\* destination as it was.
C6_Witness ==
  /\ Responded
  /\ SentStatus = 404
  /\ IsProxyBidBody(SentBody)
  /\ do.v # <<>> /\ do.v[1].val.ProxyBidID = <<"0">>
  /\ err.kind = "ErrorData"
  /\ v = do.v

(***************************************************************************)
(* Error decoding: C7, C8, C9 (Spec).                                      *)
(***************************************************************************)
\* C7: CheckResponse returns nil exactly when the status code is in 200..299;
\* for every other status code it returns an *ErrorData, whatever the body.
C7_NilIffSuccessStatus ==
  Responded
    => /\ CheckResponse(req[1], do.sent.resp[1]).err.kind = "nil" <=> Is2xx(SentStatus)
       /\ ~Is2xx(SentStatus) =>
            CheckResponse(req[1], do.sent.resp[1]).err.kind = "ErrorData"
       /\ ~Is2xx(SentStatus) => err.kind = "ErrorData"
       /\ Is2xx(SentStatus) => err.kind # "ErrorData"

\* A 300 response with an empty body gave an *ErrorData.
C7_Witness ==
  /\ Responded
  /\ SentStatus = 300
  /\ SentBody = EmptyBody
  /\ err.kind = "ErrorData"

\* The body is an object whose only member is an "errors" array of records.
IsErrorBody(body) == body \in ErrorBodies

\* The records of the "errors" array of a body.
SourceRecords(body) == body.val.a[1].v.a

\* The member of a JSON object with the key given, JNull when there is none.
Member(obj, key) ==
  IF \E i \in 1..Len(obj.a) : obj.a[i].k = key
  THEN (CHOOSE m \in {obj.a[i] : i \in 1..Len(obj.a)} : m.k = key).v
  ELSE JNull

\* The strings of a JSON array of strings.
StringsOf(j) == [i \in 1..Len(j.a) |-> j.a[i].s]

\* The name and value of each object of a JSON array.
ParametersOf(j) ==
  [i \in 1..Len(j.a) |->
     [Name |-> Member(j.a[i], "name").s, Value |-> Member(j.a[i], "value").s]]

\* The decoded record holds the values of the source record.
SameRecord(rec, src) ==
  /\ rec.ErrorID = Member(src, "errorId").n
  /\ rec.Domain = Member(src, "domain").s
  /\ rec.SubDomain = Member(src, "subDomain").s
  /\ rec.Category = Member(src, "category").s
  /\ rec.Message = Member(src, "message").s
  /\ rec.LongMessage = Member(src, "longMessage").s
  /\ rec.InputRefIds = StringsOf(Member(src, "inputRefIds"))
  /\ rec.OuputRefIds = StringsOf(Member(src, "outputRefIds"))
  /\ rec.Parameters = ParametersOf(Member(src, "parameters"))

\* C8: for a response outside 200..299 whose body is an object with an
\* "errors" array of records, the Errors of the ErrorData has the length of
\* the array, and its i-th record holds the values of the i-th record of the
\* array.
C8_ErrorsDecodedInOrder ==
  (Responded /\ ~Is2xx(SentStatus) /\ IsErrorBody(SentBody))
    => /\ err.kind = "ErrorData"
       /\ Len(err.data.Errors) = Len(SourceRecords(SentBody))
       /\ \A i \in 1..Len(err.data.Errors) :
            SameRecord(err.data.Errors[i], SourceRecords(SentBody)[i])

\* Two different records were decoded, the one with every field first.
C8_Witness ==
  /\ Responded
  /\ SentStatus = 404
  /\ IsErrorBody(SentBody)
  /\ err.kind = "ErrorData"
  /\ Len(err.data.Errors) = 2
  /\ err.data.Errors[1].ErrorID = ErrGetBiddingNoBiddingActivity
  /\ err.data.Errors[1].Parameters = <<[Name |-> <<"n">>, Value |-> <<"v">>],
                                       [Name |-> <<>>, Value |-> <<"w">>]>>
  /\ err.data.Errors[2].ErrorID = ErrGetBiddingMarketplaceNotSupported

\* C9 as stated: for a response outside 200..299 whose body is empty, not
\* JSON, or JSON of another shape, CheckResponse returns an *ErrorData with
\* no record, whose Response has the status code of the response.
C9_MalformedBodyGivesEmptyErrorData ==
  (Responded /\ ~Is2xx(SentStatus) /\ SentBody \in MalformedBodies)
    => /\ err.kind = "ErrorData"
       /\ err.data.Errors = <<>>
       /\ err.data.Response # <<>>
       /\ err.data.Response[1].StatusCode = SentStatus

(***************************************************************************)
(* The error-code predicate: C10 (Spec).                                   *)
(***************************************************************************)
\* C10: IsError(err, codes...) is true exactly when err is an *ErrorData with
\* a record whose ErrorID is one of the codes; it is false for nil, for an
\* error of another type, for no record and for no code.
C10_IsErrorIffRecordMatches ==
  ie.state = "returned"
    => /\ ie.result <=>
            /\ ie.err.kind = "ErrorData"
            /\ \E i \in 1..Len(ie.err.data.Errors), j \in 1..Len(ie.codes) :
                 ie.err.data.Errors[i].ErrorID = ie.codes[j]
       /\ ie.err.kind # "ErrorData" => ~ie.result
       /\ ie.codes = <<>> => ~ie.result

\* The second record of an *ErrorData matched the second code.
C10_Witness ==
  /\ ie.state = "returned"
  /\ ie.result
  /\ ie.codes = <<0, ErrGetBiddingMarketplaceNotSupported>>
  /\ Len(ie.err.data.Errors) = 2
  /\ ie.err.data.Errors[1].ErrorID = ErrGetBiddingNoBiddingActivity
  /\ ie.err.data.Errors[2].ErrorID = ErrGetBiddingMarketplaceNotSupported

(***************************************************************************)
(* The exit paths of Do: C11, C12, C13, C14 (Spec).                        *)
(***************************************************************************)
\* C11: whenever the transport returned a response, its body is closed when
\* Do returns: after a decoded success, a success with no destination, a
\* success whose decoding failed, and an error status.
C11_BodyClosedOnEveryPath ==
  Responded => (resp # <<>> /\ resp[1].Closed)

\* The body of a success whose decoding failed was closed.
C11_Witness ==
  /\ Responded
  /\ SentStatus = 200
  /\ SentBody = GarbageBody
  /\ do.v # <<>>
  /\ err.kind = "withStack"
  /\ resp[1].Closed

\* A body that cannot be decoded into a ProxyBid: no byte, bytes that are no
\* JSON, a JSON text that is neither an object nor null, or an object whose
\* proxyBidId is neither a string nor null.
IsUndecodable(body) ==
  \/ body.kind \in {"empty", "garbage"}
  \/ /\ body.kind = "json"
     /\ \/ body.val.t \notin {"obj", "null"}
        \/ /\ body.val.t = "obj"
           /\ \E i \in 1..Len(body.val.a) :
                /\ body.val.a[i].k \in {"proxyBidId", "ProxyBidID"}
                /\ body.val.a[i].v.t \notin {"str", "null"}

\* C12: when the status is 2xx, a destination is given and the body cannot be
\* decoded into it, Do returns a non-nil error.
C12_DecodeFailureIsAnError ==
  (Responded /\ Is2xx(SentStatus) /\ do.v # <<>> /\ IsUndecodable(SentBody))
    => err.kind # "nil"

\* A 200 response whose proxyBidId is a number gave an error.
C12_Witness ==
  /\ Responded
  /\ SentStatus = 200
  /\ SentBody = JSONBody(JObj(<<KV("proxyBidId", JNum(5))>>))
  /\ do.v # <<>>
  /\ err.kind = "withStack"
  /\ err.cause = NewError("UnmarshalTypeError")

\* C13: when the status is 2xx and the destination is nil, Do returns nil and
\* does not decode the body, whatever the body holds.
C13_NilDestinationSkipsDecode ==
  (Responded /\ Is2xx(SentStatus) /\ do.v = <<>>)
    => /\ err.kind = "nil"
       /\ v = <<>>
       /\ \A i \in 1..Len(do.calls) : do.calls[i] # "Decode"

\* A 200 response with bytes that are no JSON and no destination gave nil.
C13_Witness ==
  /\ Responded
  /\ SentStatus = 200
  /\ SentBody = GarbageBody
  /\ do.v = <<>>
  /\ err.kind = "nil"
  /\ do.calls = <<"client.Do", "CheckResponse">>

\* C14: when the transport fails, Do returns an error that wraps the cause,
\* calls neither CheckResponse nor the decoder, and leaves the destination as
\* it was.
C14_TransportErrorWrapped ==
  (do.state = "returned" /\ do.sent.err.kind # "nil")
    => /\ err.kind = "withStack"
       /\ err.cause = do.sent.err
       /\ do.calls = <<"client.Do">>
       /\ v = do.v
       /\ resp = <<>>

\* The transport failed in a call with a destination that held a value.
C14_Witness ==
  /\ do.state = "returned"
  /\ do.sent.err = NewError("transport")
  /\ do.v # <<>> /\ do.v[1].val.ProxyBidID = <<"0">>
  /\ err = WithStack(NewError("transport"))
  /\ v = do.v

(***************************************************************************)
(* Authentication: C15 (SpecToken).                                        *)
(***************************************************************************)
\* C15: each invocation of BearerTokenSource.Token calls the wrapped source
\* once; a non-nil token is returned with the type "Bearer" and its other
\* fields as the source returned them; nil is returned as nil; the error is
\* the error of the source, with a token or without.
C15_TokenTypeForcedToBearer ==
  tok.invocations > 0
    => /\ tok.baseCalls = tok.invocations
       /\ tok.err = tok.base.err
       /\ tok.base.t = <<>> => tok.t = <<>>
       /\ tok.base.t # <<>> =>
            /\ tok.t # <<>>
            /\ tok.t[1].TokenType = "Bearer"
            /\ tok.t[1].AccessToken = tok.base.t[1].AccessToken
            /\ tok.t[1].RefreshToken = tok.base.t[1].RefreshToken
            /\ tok.t[1].Expiry = tok.base.t[1].Expiry

\* On the second invocation the source returned a user token with an error.
C15_Witness ==
  /\ tok.invocations = 2
  /\ tok.baseCalls = 2
  /\ tok.base.t # <<>>
  /\ tok.base.t[1].TokenType = "User Access Token"
  /\ tok.base.err = NewError("oauth2")
  /\ tok.t[1].TokenType = "Bearer"
  /\ tok.err = NewError("oauth2")

(***************************************************************************)
(* The header options: C16, C17 (SpecOpts).                                *)
(***************************************************************************)
\* The request as the i-th option call of NewRequest left it.
LeftBy(i) == IF i < Len(reqLog) THEN reqLog[i + 1].seen ELSE req[1]

\* "contextualLocation=" and the percent-encoded form of "country=C,zip=Z",
\* for a country and a zip code of letters and digits.
LocationSegment(country, zip) ==
  <<"c", "o", "n", "t", "e", "x", "t", "u", "a", "l", "L", "o", "c", "a", "t", "i", "o", "n", "=">>
  \o <<"c", "o", "u", "n", "t", "r", "y", "%", "3", "D">> \o country
  \o <<"%", "2", "C", "z", "i", "p", "%", "3", "D">> \o zip

\* C16: OptBrowseContextualLocation applied to a request whose
\* X-EBAY-C-ENDUSERCTX header holds a non-empty value leaves the header with
\* that value, a comma and the location segment; applied to a request with
\* no such header it leaves the segment alone.  So two applications leave
\* both segments, in the order of application.
C16_LocationAppended ==
  (nr.state = "returned" /\ req # <<>>)
    => \A i \in 1..Len(reqLog) :
         reqLog[i].opt.name = "OptBrowseContextualLocation"
           => LeftBy(i).Header[headerEndUserCtx] =
                <<(IF HeaderGet(reqLog[i].seen.Header, headerEndUserCtx) # <<>>
                   THEN HeaderGet(reqLog[i].seen.Header, headerEndUserCtx) \o <<",">>
                   ELSE <<>>)
                  \o LocationSegment(reqLog[i].opt.a, reqLog[i].opt.b)>>

\* The location of GB was applied, then the location of US: the header holds
\* the segment of GB, a comma, the segment of US.
C16_Witness ==
  /\ nr.state = "returned" /\ req # <<>>
  /\ Len(nr.opts) = 2
  /\ nr.opts[1] = [name |-> "OptBrowseContextualLocation", a |-> GB, b |-> <<"2">>]
  /\ nr.opts[2] = [name |-> "OptBrowseContextualLocation", a |-> US, b |-> <<"1">>]
  /\ req[1].Header[headerEndUserCtx] =
       <<LocationSegment(GB, <<"2">>) \o <<",">> \o LocationSegment(US, <<"1">>)>>

\* C17: OptBuyMarketplace(m) leaves the X-EBAY-C-MARKETPLACE-ID header with
\* the single value m, whatever it held, and the other header and the URL as
\* they were.  So after m1 then m2 the header holds m2 alone.
C17_MarketplaceOverwritten ==
  (nr.state = "returned" /\ req # <<>>)
    => \A i \in 1..Len(reqLog) :
         reqLog[i].opt.name = "OptBuyMarketplace"
           => /\ LeftBy(i).Header[headerMarketplaceID] = <<reqLog[i].opt.a>>
              /\ \A h \in HeaderNames \ {headerMarketplaceID} :
                   LeftBy(i).Header[h] = reqLog[i].seen.Header[h]
              /\ LeftBy(i).URL = reqLog[i].seen.URL
              /\ LeftBy(i).Method = reqLog[i].seen.Method
              /\ LeftBy(i).Host = reqLog[i].seen.Host

\* The marketplace US was applied, then GB: the header holds GB alone.
C17_Witness ==
  /\ nr.state = "returned" /\ req # <<>>
  /\ nr.opts = <<[name |-> "OptBuyMarketplace", a |-> US, b |-> <<>>],
                 [name |-> "OptBuyMarketplace", a |-> GB, b |-> <<>>]>>
  /\ reqLog[2].seen.Header[headerMarketplaceID] = <<US>>
  /\ req[1].Header[headerMarketplaceID] = <<GB>>

(***************************************************************************)
(* The payload of PlaceProxyBid: C18 (SpecBody).                           *)
(***************************************************************************)
\* The text holds the part, as consecutive bytes.
ContainsSeq(text, part) ==
  \E i \in 1..(Len(text) - Len(part) + 1) : SubSeq(text, i, i + Len(part) - 1) = part

\* PlaceProxyBid built a request and sent it.
BidSent == wr.fn = "PlaceProxyBid" /\ wr.state = "returned" /\ wr.req # <<>>

\* An amount the encoder writes as it is.
PlainAmount(a) == \A i \in 1..Len(a) : IsDigit(a[i]) \/ a[i] = "."

\* "maxAmount":{"currency":"C","value":"V"}
MaxAmountText(currency, amount) ==
  <<"\"", "maxAmount", "\"", ":", "{", "\"", "currency", "\"", ":", "\"">> \o currency
  \o <<"\"", ",", "\"", "value", "\"", ":", "\"">> \o amount \o <<"\"", "}">>

\* "userConsent":{"adultOnlyItem":true}
ConsentText ==
  <<"\"", "userConsent", "\"", ":", "{", "\"", "adultOnlyItem", "\"", ":",
    "t", "r", "u", "e", "}">>

\* C18: the body of the request PlaceProxyBid builds holds the currency and
\* the value of maxAmount; with the consent flag true it holds the
\* userConsent object with adultOnlyItem true; with the flag false it holds
\* no userConsent object at all.
C18_ConsentAbsentWhenFalse ==
  (BidSent /\ PlainAmount(wr.args[1].maxAmount))
    => /\ wr.req[1].Body # <<>>
       /\ wr.req[1].Body[1] =
            <<"{">> \o MaxAmountText(wr.args[1].currency, wr.args[1].maxAmount)
            \o (IF wr.args[1].userConsentAdultOnlyItem
                THEN <<",">> \o ConsentText ELSE <<>>)
            \o <<"}", "\n">>

(***************************************************************************)
(* Requests with a body: C19 (SpecBody).                                   *)
(***************************************************************************)
\* NewRequest was called with a body argument and returned.
BodyCallReturned == wr.fn = "NewRequest" /\ wr.state = "returned"

\* The body value holds a channel: it has no JSON form.
HoldsChannel(body) ==
  body # <<>> /\ body[1].T = PtrT(OptionalChanT) /\ body[1].val[1].Done # <<>>

\* The JSON form of each body value of BodyValues that has one, written out.
WrittenOut(body) ==
  CASE body[1].T = PtrT(ProxyBidPayloadT) ->
         <<"{">>
         \o <<"\"", "maxAmount", "\"", ":", "{", "\"", "currency", "\"", ":", "\"", "U", "S", "D",
              "\"", ",", "\"", "value", "\"", ":">>
         \o (IF body[1].val[1].MaxAmount.Value = <<"1", ".", "2">>
             THEN <<"\"", "1", ".", "2", "\"">>
             ELSE <<"\"", "\\", "\"", "\\", "u", "0", "0", "3", "c", "\"">>)
         \o <<"}", ",", "\"", "userConsent", "\"", ":", "{", "\"", "adultOnlyItem", "\"", ":">>
         \o (IF body[1].val[1].UserConsent.AdultOnlyItem
             THEN <<"t", "r", "u", "e">> ELSE <<"f", "a", "l", "s", "e">>)
         \o <<"}", "}", "\n">>
    [] body[1].T = PtrT(CompatibilityPayloadT) ->
         <<"{", "\"", "compatibilityProperties", "\"", ":", "[",
           "{", "\"", "name", "\"", ":", "\"", "0", "\"", ",",
                "\"", "value", "\"", ":", "\"", "1", "\"", "}", ",",
           "{", "\"", "name", "\"", ":", "\"", "2", "\"", ",",
                "\"", "value", "\"", ":", "\"", "3", "\"", "}",
           "]", "}", "\n">>
    [] body[1].T = PtrT(OptionalChanT) ->
         IF body[1].val[1].Total = 0 THEN <<"{", "}", "\n">>
         ELSE <<"{", "\"", "total", "\"", ":", "1", "2", "}", "\n">>

\* C19: a request built with a body value that is not nil carries the JSON
\* form of the value as its body, and the content type of JSON; when the
\* value has no JSON form the call returns an error and no request; a request
\* built with no body value has no body.
C19_BodyAttachedOrRefused ==
  BodyCallReturned
    => /\ (wr.body # <<>> /\ ~HoldsChannel(wr.body) /\ wr.req # <<>>)
            => /\ wr.req[1].Body = <<WrittenOut(wr.body)>>
               /\ wr.req[1].Header[headerContentType] = <<<<"application/json">>>>
       /\ HoldsChannel(wr.body) => (wr.req = <<>> /\ wr.err.kind # "nil")
       /\ (wr.body = <<>> /\ wr.req # <<>>) => wr.req[1].Body = <<>>
       /\ wr.req = <<>> => wr.err.kind # "nil"

\* A value that holds a channel was handed over with a method and a path
\* that make a request: an error came back, and no request.
C19_Witness ==
  /\ BodyCallReturned
  /\ HoldsChannel(wr.body)
  /\ wr.method = POST /\ wr.url \in WrapperPaths
  /\ wr.req = <<>>
  /\ wr.err.kind # "nil"

(***************************************************************************)
(* The message of the error: C20 (Spec).                                   *)
(***************************************************************************)
\* Error() was called on the *ErrorData of a response.
ErrorCalled == em.state # "none"

\* C20: Error() on the *ErrorData of CheckResponse returns, and its message
\* holds the method of the request, the URL it was resolved to, the status
\* code of the response, and the message of every record that was decoded.
C20_MessageNamesRequestAndStatus ==
  ErrorCalled
    => /\ em.state = "returned"
       /\ ContainsSeq(em.msg, req[1].Method)
       /\ ContainsSeq(em.msg, String(req[1].URL))
       /\ ContainsSeq(em.msg, Itoa(SentStatus))
       /\ \A i \in 1..Len(err.data.Errors) :
            ContainsSeq(em.msg, err.data.Errors[i].Message)

(***************************************************************************)
(* The base URL of a custom client: C28 (SpecBuild).                       *)
(***************************************************************************)
\* C28: a client that NewCustomClient returned with no error holds a base URL
\* that is not nil, and a NewRequest call on it returns (a request or an
\* error): it does not fault.
C28_CustomClientHasBaseURL ==
  (ctor.fn = "NewCustomClient" /\ client # <<>> /\ clientErr.kind = "nil")
    => /\ client[1].baseURL # <<>>
       /\ Called => nr.state = "returned"

(***************************************************************************)
(* The empty body of a success: C30 (Spec).                                *)
(***************************************************************************)
\* C30: when the status is 2xx, the body is empty and a destination is given,
\* Do returns the end-of-input error of the decoder and leaves the
\* destination as it was; and Do returns nil for a 2xx response with a
\* destination only when the body starts with a whole JSON text.
C30_EmptySuccessBodyIsAnError ==
  (Responded /\ Is2xx(SentStatus) /\ do.v # <<>>)
    => /\ SentBody = EmptyBody
            => /\ err.kind = "withStack"
               /\ err.cause = NewError("EOF")
               /\ v = do.v
       /\ err.kind = "nil" => SentBody.kind \in {"json", "trailing"}

\* A 299 response with no body and a destination that held a value gave the
\* end-of-input error.
C30_Witness ==
  /\ Responded
  /\ SentStatus = 299
  /\ SentBody = EmptyBody
  /\ do.v = <<[T |-> ProxyBidT, val |-> [ProxyBidID |-> <<"0">>]]>>
  /\ err = WithStack(NewError("EOF"))
  /\ v = do.v

(***************************************************************************)
(* The marketplace of a wrapper: C27 (SpecBody).                           *)
(***************************************************************************)
\* A wrapper that takes a marketplaceID built a request and sent it.
WrapperSent ==
  /\ wr.fn \in {"GetBidding", "PlaceProxyBid", "CheckCompatibility"}
  /\ wr.state = "returned"
  /\ wr.req # <<>>

DispatchesOf(n) == {i \in 1..Len(wire.log) : wire.log[i].call = n}

\* C24: the transport receives one dispatch for each Do call, whatever the
\* call ended with (a transport failure, a non-2xx response, a decode
\* failure, a success), and each call returns what was served to its own
\* dispatch: the response of an earlier call is not returned again.
C24_DispatchedOncePerCall ==
  /\ Len(wire.log) = wire.calls
  /\ Len(wire.results) = wire.calls
  /\ \A n \in 1..wire.calls :
       /\ Cardinality(DispatchesOf(n)) = 1
       /\ wire.log[n].call = n
       /\ (wire.log[n].ctx = "live" /\ wire.log[n].served.err.kind = "nil")
            => /\ wire.results[n].resp # <<>>
               /\ wire.results[n].resp[1].StatusCode = wire.log[n].served.resp[1].StatusCode
               /\ wire.results[n].resp[1].Body = wire.log[n].served.resp[1].Body
       /\ (wire.log[n].ctx # "live" \/ wire.log[n].served.err.kind # "nil")
            => /\ wire.results[n].resp = <<>>
               /\ wire.results[n].err.kind = "withStack"

\* A call that the transport failed was followed by a call that was served a
\* bid: two dispatches, and the second call returned the bid.
C24_Witness ==
  /\ wire.calls = 2
  /\ Len(wire.log) = 2
  /\ wire.log[1].ctx = "live" /\ wire.log[1].served.err.kind # "nil"
  /\ wire.log[2].ctx = "live" /\ wire.log[2].served.resp # <<>>
  /\ wire.log[2].served.resp[1].StatusCode = 200
  /\ wire.results[1].err.kind = "withStack"
  /\ wire.results[2].err.kind = "nil" /\ wire.results[2].resp # <<>>

\* The context of the last Do call.
LastContext == wire.log[Len(wire.log)].ctx

\* C25: when the context of the caller is canceled, or its deadline passes,
\* before the response is received, Do returns the error of the context with
\* a stack (no *ErrorData, no success), whatever the server would have sent,
\* and the destination is as it was.
C25_ContextErrorSurfaced ==
  (wire.calls > 0 /\ Len(wire.log) > 0 /\ LastContext # "live")
    => /\ err.kind = "withStack"
       /\ err.cause = NewError(IF LastContext = "canceled" THEN "context canceled"
                               ELSE "context deadline exceeded")
       /\ v = do.v
       /\ resp = <<>>

\* The deadline passed on a call that the server would have answered with a
\* bid: the error of the context came back and the destination kept its value.
C25_Witness ==
  /\ wire.calls = 1
  /\ wire.log[1].ctx = "deadlineExceeded"
  /\ wire.log[1].served.resp # <<>>
  /\ wire.log[1].served.resp[1].StatusCode = 200
  /\ do.v = <<[T |-> ProxyBidT, val |-> [ProxyBidID |-> <<"0">>]]>>
  /\ err = WithStack(NewError("context deadline exceeded"))
  /\ v = do.v

(***************************************************************************)
(* The options that set a query key: C22, C23 (SpecQuery).                 *)
(***************************************************************************)
IsQueryOpt(o) ==
  o.name \in {"OptBrowseSearch", "OptBrowseSearchSort", "OptBrowseSearchLimit"}

\* The argument of a query option, as a string.
ArgumentText(o) == IF o.name = "OptBrowseSearchLimit" THEN Itoa(o.n) ELSE o.a

\* The keys of a query, and the values of one key (none when absent).
KeysOf(m) == {m[i].k : i \in 1..Len(m)}

ValuesOf(m, k) ==
  IF k \in KeysOf(m) THEN (CHOOSE e \in {m[i] : i \in 1..Len(m)} : e.k = k).vs ELSE <<>>

\* C22: after a query option is applied, its key has the single value that is
\* the argument of the option, whether the URL held the key or not, and every
\* other key of the URL has the values it had.
C22_QueryKeyOverwritten ==
  (nr.state = "returned" /\ req # <<>>)
    => \A i \in 1..Len(reqLog) :
         IsQueryOpt(reqLog[i].opt)
           => /\ ValuesOf(URLQuery(LeftBy(i).URL), searchParam(reqLog[i].opt.name))
                   = <<ArgumentText(reqLog[i].opt)>>
              /\ \A k \in KeysOf(URLQuery(reqLog[i].seen.URL))
                          \ {searchParam(reqLog[i].opt.name)} :
                   ValuesOf(URLQuery(LeftBy(i).URL), k)
                     = ValuesOf(URLQuery(reqLog[i].seen.URL), k)

\* What an option writes: the marketplace header, or its query key.
TargetOf(o) == IF IsQueryOpt(o) THEN searchParam(o.name) ELSE <<o.name>>

\* NewRequest applied two options, and the request it returned has the
\* headers and the query that the two options leave when applied in the other
\* order to the request the first option received.
SameInOtherOrder ==
  /\ req[1].Header =
       ApplyOpts(<<nr.opts[2], nr.opts[1]>>, reqLog[1].seen, <<>>).req.Header
  /\ req[1].URL.RawQuery =
       ApplyOpts(<<nr.opts[2], nr.opts[1]>>, reqLog[1].seen, <<>>).req.URL.RawQuery

\* C23, as stated: any two options among OptBuyMarketplace and the query
\* options leave the same headers and query in either order.
C23_AnyTwoOptionsCommute ==
  (nr.state = "returned" /\ req # <<>> /\ Len(nr.opts) = 2) => SameInOtherOrder

\* C23, amended: two options among OptBuyMarketplace and the query options
\* that write different things (two query keys, or a query key and the
\* marketplace header), or that are equal, leave the same headers and query
\* in either order.
C23_OptionsOnDifferentKeysCommute ==
  (/\ nr.state = "returned" /\ req # <<>> /\ Len(nr.opts) = 2
   /\ \/ TargetOf(nr.opts[1]) # TargetOf(nr.opts[2])
      \/ nr.opts[1] = nr.opts[2])
    => SameInOtherOrder

\* The search text was applied, then the limit, to a URL that held two other
\* keys: the query holds the four keys in sorted order, as it would in the
\* other order.
C23_Witness ==
  /\ nr.state = "returned" /\ req # <<>>
  /\ nr.url = <<"b", "?", "z", "=", "1", "&", "a", "=", "2">>
  /\ Len(nr.opts) = 2
  /\ nr.opts[1].name = "OptBrowseSearch" /\ nr.opts[1].a = <<"x">>
  /\ nr.opts[2].name = "OptBrowseSearchLimit"
  /\ req[1].URL.RawQuery =
       <<"a", "=", "2", "&", "l", "i", "m", "i", "t", "=", "1", "2", "&",
         "q", "=", "x", "&", "z", "=", "1">>

(***************************************************************************)
(* Concurrent Token calls: C21 (SpecConcurrentToken).                      *)
(***************************************************************************)
\* The access to a token object that goroutine i makes next: the write of
\* line 33, or the caller's read of the token it was handed (0: none).
WritesNext(i) == tkc.g[i].pc = "write"

ReadsNext(i) == tkc.g[i].pc = "returned" /\ tkc.g[i].t # <<>>

AccessedNext(i) == IF WritesNext(i) \/ ReadsNext(i) THEN tkc.g[i].t[1] ELSE 0

\* Two goroutines are about to access the same token object, one of them to
\* write it, with nothing that orders the two accesses.
ConflictingAccess(i, j) ==
  /\ i # j
  /\ AccessedNext(i) # 0
  /\ AccessedNext(i) = AccessedNext(j)
  /\ WritesNext(i)

\* Every caller that read the type of its token read "Bearer".
EveryCallerReceivesBearer ==
  \A i \in Callers :
    (tkc.g[i].seen # <<>> /\ tkc.g[i].t # <<>>) => tkc.g[i].seen = <<"Bearer">>

\* C21: in every interleaving of Token calls on one adapter, the wrapped
\* source handing one token object to several callers included, no two
\* goroutines access a token object concurrently with one of them writing,
\* and every caller receives a token of type "Bearer".
C21_ConcurrentTokenSafe ==
  /\ \A i, j \in Callers : ~ConflictingAccess(i, j)
  /\ EveryCallerReceivesBearer

(***************************************************************************)
(* Wrappers that share an options slice: C29 (SpecSharedOptions).          *)
(***************************************************************************)
\* The backing array of the caller's slice is as the caller made it, the
\* spare capacity included.
CallerStorageUnchanged == slc.state = "made" => slc.arrays[1] = slc.made

\* Goroutine i is about to write a slot of the caller's array: its append
\* finds spare capacity.
WritesSharedSlot(i) ==
  /\ slc.state = "made" /\ slc.g[i].pc = "idle" /\ slc.calls < MaxConcurrentCalls
  /\ slc.shared.len < slc.shared.cap

\* Goroutine i is about to read the slots of the caller's array, the one
\* after the caller's elements included.
ReadsSharedSlot(i) == slc.g[i].pc = "appended" /\ slc.g[i].opts.array = 1

\* Two calls are about to access the same slot of the caller's array, one of
\* them to write it.
SlotConflict(i, j) ==
  i # j /\ WritesSharedSlot(i) /\ (WritesSharedSlot(j) \/ ReadsSharedSlot(j))

\* The request of each call carries the marketplaceID of that call.
OwnMarketplaceCarried ==
  \A i \in Callers :
    (slc.g[i].pc \in {"built", "returned"} /\ slc.g[i].r.req # <<>>)
      => slc.g[i].r.req[1].Header[headerMarketplaceID] = <<slc.g[i].marketplaceID>>

\* C29: the wrappers write no element of the options slice of their caller nor
\* of its backing storage, spare capacity included; two concurrent calls that
\* share one slice never write the same storage, and the request of each call
\* carries the marketplaceID of that call.
C29_CallerOptionsUntouched ==
  /\ CallerStorageUnchanged
  /\ \A i, j \in Callers : ~SlotConflict(i, j)
  /\ OwnMarketplaceCarried

(***************************************************************************)
(* One Client used by concurrent calls: C26 (SpecSharedClient).            *)
(***************************************************************************)
\* The Client holds the references it was constructed with, and its base URL
\* is the URL the constructor parsed.
SharedClientUnmodified ==
  shr.state = "constructed"
    => /\ shr.client = [client |-> shr.made[1].client, baseURL |-> 1]
       /\ <<shr.urls[1]>> = shr.made[1].baseURL

\* The URL object and the header map of a request are those of no other
\* request, and its URL object is not that of the Client.
RequestsFresh ==
  \A i \in Callers :
    shr.g[i].shell # <<>>
      => /\ shr.g[i].url # shr.client.baseURL
         /\ \A j \in Callers \ {i} :
              shr.g[j].shell # <<>>
                => shr.g[i].url # shr.g[j].url /\ shr.g[i].hdr # shr.g[j].hdr

\* What NewRequest returned to goroutine i: the request, read through its
\* references now, or nil.
ReturnedRequest(i) ==
  IF shr.g[i].shell = <<>> THEN <<>>
  ELSE <<requestAt(shr.g[i].shell[1], shr.urls, shr.hdrs, shr.g[i].url, shr.g[i].hdr)>>

\* The NewRequest call of goroutine i, as it returns when it runs alone on
\* the Client the constructor returned.
AloneRequest(i) == NewRequest(shr.made[1], shr.g[i].in[1], shr.g[i].in[2], shr.g[i].in[3])

\* Each call that returned has the outcome of the same call run alone.
OutcomesAsAlone ==
  \A i \in Callers :
    /\ shr.g[i].pc \in {"built", "done"}
         => /\ ReturnedRequest(i) = AloneRequest(i).req
            /\ shr.g[i].err = AloneRequest(i).err
            /\ shr.g[i].panicked = AloneRequest(i).panicked
    /\ shr.g[i].pc = "done"
         => shr.g[i].out =
              <<Do(shr.made[1], shr.g[i].sent[1], AloneRequest(i).req[1],
                   <<[T |-> ProxyBidT, val |-> Zero(ProxyBidT)]>>)>>

\* C26: in every interleaving of NewRequest and Do calls from several callers
\* on one Client, the base URL and the HTTP client of the Client are not
\* modified, each request shares no URL or header state with another, and
\* each call returns what it returns when run alone.
C26_SharedClientConfined ==
  /\ SharedClientUnmodified
  /\ RequestsFresh
  /\ OutcomesAsAlone

\* One call has rewritten the query of its request and is still in its option
\* loop, while another has built a request with a rewritten query and sent it.
C26_Witness ==
  \E i, j \in Callers :
    /\ i # j
    /\ shr.g[i].pc = "options" /\ Len(shr.g[i].left) = 1
    /\ shr.g[i].in[1] = POST
    /\ shr.g[j].pc = "done"
    /\ shr.urls[shr.g[j].url].RawQuery = <<"q", "=", "y", "&", "q", "=", "x">>
    /\ shr.g[j].out[1].err.kind = "nil"

====
